---- MODULE Spec2Model ----
(***************************************************************************)
(* A model of plugins/elasticsearch_plugin/elasticsearch_plugin.cpp: the   *)
(* action filter, the ABI cache, the account projection, the worker's      *)
(* processing routines, and the producer / worker / shutdown threads.      *)
(*                                                                         *)
(* The specifications share the variables:                                 *)
(*   SpecFilter       filter_include as a function of the configuration    *)
(*   Spec             the worker's processing routines, one event a step   *)
(*   SpecThreads      the staging queues and the threads around them       *)
(*   FairSpecThreads  SpecThreads with every running thread scheduled      *)
(* Each specification holds the variables of the others at their initial   *)
(* values.                                                                 *)
(***************************************************************************)
EXTENDS Integers, Sequences, FiniteSets, TLC

\* ---------------------------------------------------------------- bounds
MaxAuth == 2
MaxEvents == 2
MaxBlockNum == 2
MaxCacheSize == 2
MaxEmitted == 2
MaxQueueSize == 1
MaxBurst == 4
MaxCalls == 3

\* ------------------------------------------------------------- constants
\* name{0}: the wildcard sentinel of a filter_entry
Zero == ""
system_account_name == "eosio"
\* the step of the adaptive sleep of queue(), in milliseconds
SleepStep == 10

VARIABLES
  \* configuration (members of elasticsearch_plugin_impl)
  filter_on_star, filter_on, filter_out,
  \* SpecFilter: the action handed to filter_include, its result, and the
  \* position of the caller
  f_act, f_ret, f_pc,
  \* configuration read by the processing routines
  start_block_num, store_blocks, store_transaction_traces, store_action_traces,
  abi_cache_size,
  \* state of the worker's processing routines
  start_block_reached,   \* the start-block gate
  abi_cache_index,       \* the ABI cache, in by_last_access order
  clock,                 \* the last value fc::time_point::now() returned
  accounts,              \* the search store: documents of type accounts
  pub_keys,              \* ... of type pub_keys
  account_controls,      \* ... of type account_controls
  \* observation of the last processing routine that ran
  es_log,                \* the search-client calls it made, in order
  ua_log,                \* the actions it handed to update_account, in order
  evict_log,             \* the evictions purge_abi_cache made, in order
  cache_peak,            \* the largest size the ABI cache had during it
  stale_used,            \* a cache entry older than a received setabi was used
  last_event,            \* the event it processed and the gate before it
  nevents,               \* number of events processed so far
  \* SpecThreads
  l_pc,                  \* main thread: where it is in initialize / shutdown
  connected,             \* the four signal connections are connected
  index_created,         \* init_index has run
  startup, done,         \* the atomic flags
  max_queue_size,
  queue_sleep_time,
  queue,                 \* the four staging queues, by kind
  process_queue,         \* the four process queues, by kind
  mtx,                   \* the thread holding the mutex
  w_pc,                  \* consume thread: where it is in consume_blocks
  w_size,                \* ... the sizes it captured
  p_pc, p_kind, p_ev,    \* emitter threads: where in queue(), with what
  p_tmp,                 \* ... the value of queue_sleep_time last read
  next_ev,               \* the next event the host emits
  processed,             \* the events handed to a processing routine, in order
  appended,              \* the events appended to a staging queue, in order
  last_sleep             \* the last sleep taken in queue(), see NoSleep

cfgFilter == <<filter_on_star, filter_on, filter_out>>
varsFilter == <<f_act, f_ret, f_pc>>
vars == <<filter_on_star, filter_on, filter_out, f_act, f_ret, f_pc,
          start_block_num, store_blocks, store_transaction_traces, store_action_traces,
          abi_cache_size, start_block_reached, abi_cache_index, clock, accounts, pub_keys,
          account_controls, es_log, ua_log, evict_log, cache_peak, stale_used,
          last_event, nevents, l_pc, connected, index_created, startup, done,
          max_queue_size, queue_sleep_time, queue, process_queue, mtx, w_pc, w_size,
          p_pc, p_kind, p_ev, p_tmp, next_ev, processed, appended, last_sleep>>
varsThreads == <<l_pc, connected, index_created, startup, done, max_queue_size,
                 queue_sleep_time, queue, process_queue, mtx, w_pc, w_size, p_pc, p_kind,
                 p_ev, p_tmp, next_ev, processed, appended, last_sleep>>
\* the variables SpecThreads leaves alone
varsOther == <<filter_on_star, filter_on, filter_out, f_act, f_ret, f_pc,
               start_block_num, store_blocks, store_transaction_traces,
               store_action_traces, abi_cache_size, start_block_reached, abi_cache_index,
               clock, accounts, pub_keys, account_controls, es_log, ua_log, evict_log,
               cache_peak, stale_used, last_event, nevents>>
cfgProc == <<start_block_num, store_blocks, store_transaction_traces, store_action_traces,
             abi_cache_size>>
varsProc == <<start_block_reached, abi_cache_index, clock, accounts, pub_keys,
              account_controls, es_log, ua_log, evict_log, cache_peak, stale_used,
              last_event, nevents>>

\* -------------------------------------------------- threads and kinds
Producers == {"p1", "p2"}

Kinds == <<"transaction_trace", "transaction_metadata", "block_state",
           "irreversible_block_state">>

KindSet == {Kinds[i] : i \in DOMAIN Kinds}

NoOwner == "none"

\* the state of the threads in the specifications that do not run them
\* the number of events the worker has taken out of the staging queues
Captured ==
  Len(processed) + Len(process_queue[Kinds[1]]) + Len(process_queue[Kinds[2]])
    + Len(process_queue[Kinds[3]]) + Len(process_queue[Kinds[4]])

\* observation of sleep_for in queue(): the length of the last sleep, the
\* number of events captured when it was taken, and whether some sleep was
\* shorter than the sleep before it with no event captured between the two
NoSleep == [ms |-> 0, captured |-> 0, shorter |-> FALSE]

IdleThreads ==
  /\ l_pc = "idle"
  /\ connected = FALSE
  /\ index_created = FALSE
  /\ startup = TRUE
  /\ done = FALSE
  /\ max_queue_size = 0
  /\ queue_sleep_time = 0
  /\ queue = [k \in KindSet |-> <<>>]
  /\ process_queue = [k \in KindSet |-> <<>>]
  /\ mtx = NoOwner
  /\ w_pc = "not_started"
  /\ w_size = [k \in KindSet |-> 0]
  /\ p_pc = [p \in Producers |-> "idle"]
  /\ p_kind = [p \in Producers |-> Kinds[1]]
  /\ p_ev = [p \in Producers |-> 0]
  /\ p_tmp = [p \in Producers |-> 0]
  /\ next_ev = 1
  /\ processed = <<>>
  /\ appended = <<>>
  /\ last_sleep = NoSleep

\* ---------------------------------------------------------------- filter
FilterAccounts == {"alice", "bob"}
FilterNames == {"transfer", "issue"}
FilterActors == {"alice", "bob"}

\* filter_entry::key(): (receiver, action, actor)
filter_entry(receiver, action, actor) == <<receiver, action, actor>>

FilterEntries ==
  { filter_entry("alice", Zero, Zero),
    filter_entry("alice", "transfer", Zero),
    filter_entry("alice", "transfer", "alice"),
    filter_entry("alice", "transfer", "bob"),
    filter_entry("bob", "transfer", Zero) }

permission_level(actor) == [actor |-> actor, permission |-> "active"]

RECURSIVE SeqsUpTo(_, _)
SeqsUpTo(S, n) ==
  IF n = 0 THEN {<<>>}
  ELSE LET shorter == SeqsUpTo(S, n - 1)
       IN shorter \cup {Append(s, x) : s \in {t \in shorter : Len(t) = n - 1}, x \in S}

FilterActions ==
  { [account |-> a, name |-> n, authorization |-> auth, data |-> [kind |-> "raw"]] :
      a \in FilterAccounts, n \in FilterNames,
      auth \in {[i \in DOMAIN s |-> permission_level(s[i])] : s \in SeqsUpTo(FilterActors, MaxAuth)} }

\* the for loops of filter_include: true when some authorizer, scanned in
\* order from position i, has (account, name, actor) in the set
RECURSIVE auth_loop(_, _, _)
auth_loop(set, act, i) ==
  IF i > Len(act.authorization) THEN FALSE
  ELSE IF filter_entry(act.account, act.name, act.authorization[i].actor) \in set THEN TRUE
  ELSE auth_loop(set, act, i + 1)

\* filter_include with a fault: the exclusion of the whole account
\* (account, 0, 0) is not looked up
filter_include_no_account_exclusion(act) ==
  LET include == IF filter_on_star \/ filter_entry(act.account, act.name, Zero) \in filter_on
                 THEN TRUE
                 ELSE auth_loop(filter_on, act, 1)
  IN IF ~include THEN FALSE
     ELSE IF filter_entry(act.account, act.name, Zero) \in filter_out THEN FALSE
     ELSE IF auth_loop(filter_out, act, 1) THEN FALSE
     ELSE TRUE

\* filter_include with a fault: only the first authorizer is looked up in
\* filter_on and filter_out
filter_include_first_authorizer(act) ==
  LET first(set) == /\ Len(act.authorization) > 0
                    /\ filter_entry(act.account, act.name, act.authorization[1].actor) \in set
      include == IF filter_on_star \/ filter_entry(act.account, act.name, Zero) \in filter_on
                 THEN TRUE
                 ELSE first(filter_on)
  IN IF ~include THEN FALSE
     ELSE IF filter_entry(act.account, Zero, Zero) \in filter_out THEN FALSE
     ELSE IF filter_entry(act.account, act.name, Zero) \in filter_out THEN FALSE
     ELSE IF first(filter_out) THEN FALSE
     ELSE TRUE

filter_include(act) ==
  LET include == IF filter_on_star \/ filter_entry(act.account, act.name, Zero) \in filter_on
                 THEN TRUE
                 ELSE auth_loop(filter_on, act, 1)
  IN IF ~include THEN FALSE
     ELSE IF filter_entry(act.account, Zero, Zero) \in filter_out THEN FALSE
     ELSE IF filter_entry(act.account, act.name, Zero) \in filter_out THEN FALSE
     ELSE IF auth_loop(filter_out, act, 1) THEN FALSE
     ELSE TRUE

\* ------------------------------------------------- the search store (client)
\* The documents of one type are kept in the order they were indexed; the
\* position of a document stands for the _id the store gave it.
NoId == 0

\* elasticsearch_client::search on accounts with {"term": {"name": name}}:
\* the store's hit shape, hits.total and hits.hits[..] = {_id, _source}
es_search_accounts(docs, name) ==
  LET ids == {i \in DOMAIN docs : docs[i].name = name}
  IN [total |-> Cardinality(ids),
      hits |-> [k \in 1..Cardinality(ids) |->
                  LET i == CHOOSE j \in ids : Cardinality({m \in ids : m < j}) = k - 1
                  IN [_id |-> i, _source |-> docs[i]]]]

\* elasticsearch_client::index: a new document without id, or the document of
\* that id replaced as a whole
es_index(docs, doc, id) ==
  IF id = NoId THEN Append(docs, doc) ELSE [docs EXCEPT ![id] = doc]

\* elasticsearch_client::bulk_perform of index operations without ids
es_bulk(docs, new) == docs \o new

\* elasticsearch_client::delete_by_query with two must-terms
es_delete_by_query(docs, f1, v1, f2, v2) ==
  SelectSeq(docs, LAMBDA d : ~(d[f1] = v1 /\ d[f2] = v2))

\* ------------------------------------------------------------ state record
\* The processing routines are functions of a record of the state they read
\* and write; an action applies one routine and stores the record's fields.
\*   dt      what one call of fc::time_point::now() adds to the clock during
\*           this routine (0: the clock does not advance between calls)
\*   bulk    the bulk_action_traces buffer of _process_applied_transaction
\*   failing which call of the search client fails during this routine, counted
\*           from 1 (0: none does), and failure, what that call throws
\*   calls   the calls of the search client made so far in this routine
\*   exc     the exception in flight, NoException when there is none
NoException == ""

ProcState(dt) ==
  [gate |-> start_block_reached, cache |-> abi_cache_index, clock |-> clock, dt |-> dt,
   accounts |-> accounts, pub_keys |-> pub_keys, account_controls |-> account_controls,
   log |-> <<>>, ua |-> <<>>, evict |-> <<>>, peak |-> Len(abi_cache_index),
   stale_used |-> stale_used, bulk |-> <<>>,
   failing |-> 0, failure |-> NoException, calls |-> 0, exc |-> NoException]

\* the routine run against a store whose call number failing throws
ProcStateFailing(dt, failing, failure) ==
  [ProcState(dt) EXCEPT !.failing = failing, !.failure = failure]

\* fc::time_point::now()
time_now(s) == [s EXCEPT !.clock = @ + s.dt]

Logged(s, call) == [s EXCEPT !.log = Append(@, call)]

\* --- failures of the search client
\* what a call of the search client throws when it fails: a
\* chain::response_code_exception or chain::bulk_fail_exception, which are
\* fc::exceptions, or an elasticlient::ConnectionException, which is not
ClientExceptions == {"response_code_exception", "ConnectionException"}

\* what fc::raw::unpack and variant_object::operator[] throw are fc::exceptions
\* as well
is_fc_exception(exc) ==
  exc \in {"response_code_exception", "unpack_exception", "key_not_found_exception"}

\* the next call of the search client is the one that fails
Fails(s) == s.calls + 1 = s.failing

Counted(s) == [s EXCEPT !.calls = @ + 1]

\* the failing call: nothing is written, the exception is in flight
Thrown(s, call) ==
  [Counted(s) EXCEPT !.exc = s.failure,
                     !.log = Append(@, [op |-> "failure", type |-> call.type, of |-> call,
                                        exc |-> s.failure])]

\* handle_elasticsearch_exception( desc, line ): the exception is logged and
\* app().quit() is called
handle_elasticsearch_exception(s, desc) ==
  [s EXCEPT !.exc = NoException,
            !.log = Append(@, [op |-> "handle_elasticsearch_exception", type |-> desc,
                               exc |-> s.exc, quit |-> TRUE])]

\* try { call } catch( ... ) { handle_elasticsearch_exception( desc, .. ); }
\* where written is the state the successful call leaves
guarded(s, written, call, desc) ==
  IF Fails(s) THEN handle_elasticsearch_exception(Thrown(s, call), desc)
  ELSE Logged(Counted(written), call)

\* FC_CAPTURE_AND_LOG: every exception is logged and dropped
FC_CAPTURE_AND_LOG(s) ==
  [s EXCEPT !.exc = NoException,
            !.log = Append(@, [op |-> "FC_CAPTURE_AND_LOG", type |-> "get_abi_serializer",
                               exc |-> s.exc])]

\* an exception thrown by the plugin's own code: no call of the search client
\* is involved
throws(s, exc) == [s EXCEPT !.exc = exc]

\* a handler that lets the fc::exception through
catch_nothing(s) == s

\* catch( fc::exception& e ) { } at the end of update_account
catch_fc_exception(s) == IF is_fc_exception(s.exc) THEN [s EXCEPT !.exc = NoException] ELSE s

Peak(s) == [s EXCEPT !.peak = IF Len(s.cache) > @ THEN Len(s.cache) ELSE @]

\* ----------------------------------------------------------------- ABI cache
\* abi_cache_index is the sequence of its entries in the order of the
\* by_last_access index; by_account is unique.  An entry is
\*   [account, last_accessed, serializer, stale]
\* where stale is an observation, not a field of the code: it is set when the
\* worker receives a setabi of that account in an applied trace.
NoSerializer == [valid |-> FALSE, abi |-> "", setabi_as_abi_def |-> FALSE]

cache_find(cache, n) ==
  IF \E i \in DOMAIN cache : cache[i].account = n
  THEN CHOOSE i \in DOMAIN cache : cache[i].account = n
  ELSE 0

RemoveAt(seq, i) == SubSeq(seq, 1, i - 1) \o SubSeq(seq, i + 1, Len(seq))

InsertAt(seq, i, e) == SubSeq(seq, 1, i - 1) \o <<e>> \o SubSeq(seq, i, Len(seq))

\* ordered_non_unique link point: behind every entry whose key is not greater
cache_insert(cache, entry) ==
  InsertAt(cache,
           1 + Cardinality({i \in DOMAIN cache : cache[i].last_accessed <= entry.last_accessed}),
           entry)

\* abi_cache_index.modify: the entry keeps its place when the new key still
\* fits between its neighbours, else it is unlinked and linked again
cache_modify(cache, i, t) ==
  LET e == [cache[i] EXCEPT !.last_accessed = t]
      in_place == /\ (i = 1 \/ cache[i - 1].last_accessed <= t)
                  /\ (i = Len(cache) \/ t <= cache[i + 1].last_accessed)
  IN IF in_place THEN [cache EXCEPT ![i] = e] ELSE cache_insert(RemoveAt(cache, i), e)

\* abi_cache_index.erase( account )
cache_erase(cache, n) == SelectSeq(cache, LAMBDA e : e.account # n)

\* purge_abi_cache with a fault: room is made only once the cache is over
\* its size
purge_abi_cache_late(cache) ==
  IF Len(cache) <= abi_cache_size THEN cache
  ELSE IF cache # <<>> THEN Tail(cache) ELSE cache

\* purge_abi_cache with a fault: the most recently accessed entry is removed
purge_abi_cache_newest(cache) ==
  IF Len(cache) < abi_cache_size THEN cache
  ELSE IF cache # <<>> THEN SubSeq(cache, 1, Len(cache) - 1) ELSE cache

purge_abi_cache(cache) ==
  IF Len(cache) < abi_cache_size THEN cache
  ELSE IF cache # <<>> THEN Tail(cache) ELSE cache

\* ------------------------------------------------------------------- ABIs
\* An abi_def is one of Abis; its packed form (the bytes a setabi carries) is
\* a pair, and bytes that do not unpack are NotAnAbi.
Abis == {"X1", "X2"}
NotAnAbi == <<"bytes", "garbage">>
pack_abi(abi) == <<"bytes", abi>>
unpacks(bytes) == bytes[2] \in Abis
unpack_abi(bytes) == bytes[2]

\* the abi_defs whose struct setabi has a field abi of type bytes
has_setabi_abi_bytes(abi) == abi = "X1"

NoHit == [_id |-> NoId, _source |-> [name |-> ""]]

\* the search is not inside a try block: its exception leaves find_account
find_account(s, name) ==
  LET res == es_search_accounts(s.accounts, name)
      call == [op |-> "search", type |-> "accounts", name |-> name]
  IN IF Fails(s) THEN [s |-> Thrown(s, call), found |-> FALSE, v |-> NoHit]
     ELSE IF res.total # 1 THEN [s |-> Logged(Counted(s), call), found |-> FALSE, v |-> NoHit]
     ELSE [s |-> Logged(Counted(s), call), found |-> TRUE, v |-> res.hits[1]]

\* search_abi_by_account, given the result of find_account: res["_source"]["abi"]
abi_of_hit(r) ==
  IF ~r.found THEN [s |-> r.s, found |-> FALSE, abi |-> ""]
  ELSE IF "abi" \notin DOMAIN r.v._source THEN [s |-> r.s, found |-> FALSE, abi |-> ""]
  ELSE [s |-> r.s, found |-> TRUE, abi |-> r.v._source.abi]

search_abi_by_account(s, name) == abi_of_hit(find_account(s, name))

\* get_abi_serializer, the entry found: modify last_accessed, return the
\* serializer (s1 is the state with the clock read)
cache_hit(s1, i) ==
  [s |-> [s1 EXCEPT !.cache = cache_modify(s1.cache, i, s1.clock),
                    !.stale_used = @ \/ s1.cache[i].stale],
   ret |-> s1.cache[i].serializer]

\* get_abi_serializer, the ABI found and converted: the entry is built and
\* inserted into the purged cache
cache_fill(s1, n, abi, purged) ==
  LET abis == [valid |-> TRUE, abi |-> abi,
               setabi_as_abi_def |-> n = system_account_name /\ has_setabi_abi_bytes(abi)]
      entry == [account |-> n, last_accessed |-> s1.clock, serializer |-> abis,
                stale |-> FALSE]
  IN [s |-> Peak([s1 EXCEPT !.cache = cache_insert(purged, entry),
                            !.evict = @ \o (IF Len(purged) < Len(s1.cache)
                                            THEN <<[before |-> s1.cache, after |-> purged]>>
                                            ELSE <<>>)]),
      ret |-> abis]

\* get_abi_serializer, no entry found: r is the result of search_abi_by_account
cache_miss(r, n) ==
  IF r.s.exc # NoException THEN [s |-> FC_CAPTURE_AND_LOG(r.s), ret |-> NoSerializer]
  ELSE IF ~r.found THEN [s |-> r.s, ret |-> NoSerializer]
  ELSE IF r.abi \notin Abis THEN [s |-> r.s, ret |-> NoSerializer]
  ELSE cache_fill(time_now(r.s), n, r.abi, purge_abi_cache(r.s.cache))

get_abi_serializer(s, n) ==
  IF n = Zero THEN [s |-> s, ret |-> NoSerializer]
  ELSE IF cache_find(s.cache, n) # 0 THEN cache_hit(time_now(s), cache_find(s.cache, n))
  ELSE cache_miss(search_abi_by_account(s, n), n)

\* abi_serializer::to_variant with get_abi_serializer as the resolver: the
\* resolver is called for the account of each action of the object, in order;
\* the result tells, per action, the ABI its data was decoded with ("" when
\* the data stays raw bytes)
RECURSIVE resolve_all(_, _, _)

resolve_join(r, rest, act) ==
  [s |-> rest.s,
   decoded |-> <<[account |-> act.account, name |-> act.name, abi |-> r.ret.abi]>>
                 \o rest.decoded]

resolve_rest(r, acts, i) == resolve_join(r, resolve_all(r.s, acts, i + 1), acts[i])

resolve_all(s, acts, i) ==
  IF i > Len(acts) THEN [s |-> s, decoded |-> <<>>]
  ELSE resolve_rest(get_abi_serializer(s, acts[i].account), acts, i)

to_variant_with_abi(s, acts) == resolve_all(s, acts, 1)

\* ------------------------------------------------------ account projection
newaccount == "newaccount"
setabi == "setabi"
updateauth == "updateauth"
deleteauth == "deleteauth"
owner == "owner"
active == "active"

\* action::data_as<T>() succeeds when the data unpack as a T
data_is(act, T) == act.data.kind = T

\* the actions that change the ABI of an account on the chain
is_setabi(act) ==
  act.account = system_account_name /\ act.name = setabi /\ data_is(act, setabi)

\* observation: the cache entries of the account exist from before a setabi
mark_stale(s, act) ==
  IF is_setabi(act)
  THEN [s EXCEPT !.cache = [i \in DOMAIN @ |->
                              IF @[i].account = act.data.account
                              THEN [@[i] EXCEPT !.stale = TRUE] ELSE @[i]]]
  ELSE s

add_pub_keys(s, keys, name, permission, now) ==
  IF keys = <<>> THEN s
  ELSE LET docs == [i \in DOMAIN keys |->
                      [account |-> name, public_key |-> keys[i].key,
                       permission |-> permission, createAt |-> now]]
       IN guarded(s, [s EXCEPT !.pub_keys = es_bulk(@, docs)],
                  [op |-> "bulk", type |-> "pub_keys", docs |-> docs], "action traces")

remove_pub_keys(s, name, permission) ==
  guarded(s,
          [s EXCEPT !.pub_keys = es_delete_by_query(@, "account", name, "permission", permission)],
          [op |-> "delete_by_query", type |-> "pub_keys", account |-> name,
           permission |-> permission],
          "pub_keys delete")

add_account_control(s, controlling_accounts, name, permission, now) ==
  IF controlling_accounts = <<>> THEN s
  ELSE LET docs == [i \in DOMAIN controlling_accounts |->
                      [controlled_account |-> name, controlled_permission |-> permission,
                       controlling_account |-> controlling_accounts[i].permission.actor,
                       createAt |-> now]]
       IN guarded(s, [s EXCEPT !.account_controls = es_bulk(@, docs)],
                  [op |-> "bulk", type |-> "account_controls", docs |-> docs],
                  "account_controls bulk")

remove_account_control(s, name, permission) ==
  guarded(s,
          [s EXCEPT !.account_controls =
                      es_delete_by_query(@, "controlled_account", name,
                                         "controlled_permission", permission)],
          [op |-> "delete_by_query", type |-> "account_controls", account |-> name,
           permission |-> permission],
          "account_controls delete")

create_account(s, name, now) ==
  LET doc == [name |-> name, createAt |-> now]
  IN guarded(s, [s EXCEPT !.accounts = es_index(@, doc, NoId)],
             [op |-> "index", type |-> "accounts", id |-> NoId, doc |-> doc],
             "create_account")

\* update_account, case setabi.  The variant find_account returns is the hit,
\* {_id, _source}; account["name"] is looked up in the hit itself, and a
\* variant_object throws key_not_found_exception (an fc::exception) for a key
\* it does not hold, which the catch at the end of update_account swallows.
setabi_store(r2, act, now) ==
  IF r2.s.exc # NoException THEN r2.s
  ELSE IF ~r2.found THEN r2.s
  ELSE IF ~unpacks(act.data.abi) THEN throws(r2.s, "unpack_exception")
  ELSE IF {"name", "createAt"} \subseteq DOMAIN r2.v
       THEN guarded(r2.s,
                    [r2.s EXCEPT !.accounts =
                       es_index(@, [name |-> r2.v.name, abi |-> unpack_abi(act.data.abi),
                                    updateAt |-> now, createAt |-> r2.v.createAt],
                                r2.v._id)],
                    [op |-> "index", type |-> "accounts", id |-> r2.v._id,
                     doc |-> [name |-> r2.v.name, abi |-> unpack_abi(act.data.abi),
                              updateAt |-> now, createAt |-> r2.v.createAt]],
                    "update account")
       ELSE throws(r2.s, "key_not_found_exception")

\* if( !find_account(..) ) create_account(..); then the second find_account
setabi_ensure_account(r1, act, now) ==
  IF r1.s.exc # NoException THEN r1.s
  ELSE
  setabi_store(find_account(IF ~r1.found THEN create_account(r1.s, act.data.account, now)
                            ELSE r1.s,
                            act.data.account),
               act, now)

\* abi_cache_index.erase( setabi.account ); then the first find_account
setabi_erase(s1, act) ==
  setabi_ensure_account(find_account([s1 EXCEPT !.cache = cache_erase(@, act.data.account)],
                                     act.data.account),
                        act, s1.clock)

update_account_setabi(s, act) == setabi_erase(time_now(s), act)

\* the try block of update_account
update_account_try(s0, act) ==
  LET s == [s0 EXCEPT !.ua = Append(@, act)]
  IN IF act.account # system_account_name THEN s
     ELSE IF act.name = newaccount
     THEN LET s1 == time_now(s)
              now == s1.clock
          IN IF ~data_is(act, newaccount) THEN throws(s1, "unpack_exception")
             ELSE LET d == act.data
                      a1 == create_account(s1, d.name, now)
                      a2 == add_pub_keys(a1, d.owner.keys, d.name, owner, now)
                      a3 == add_account_control(a2, d.owner.accounts, d.name, owner, now)
                      a4 == add_pub_keys(a3, d.active.keys, d.name, active, now)
                  IN add_account_control(a4, d.active.accounts, d.name, active, now)
     ELSE IF act.name = updateauth
     THEN LET s1 == time_now(s)
              now == s1.clock
          IN IF ~data_is(act, updateauth) THEN throws(s1, "unpack_exception")
             ELSE LET d == act.data
                      a1 == remove_pub_keys(s1, d.account, d.permission)
                      a2 == remove_account_control(a1, d.account, d.permission)
                      a3 == add_pub_keys(a2, d.auth.keys, d.account, d.permission, now)
                  IN add_account_control(a3, d.auth.accounts, d.account, d.permission, now)
     ELSE IF act.name = deleteauth
     THEN IF ~data_is(act, deleteauth) THEN throws(s, "unpack_exception")
          ELSE remove_account_control(remove_pub_keys(s, act.data.account, act.data.permission),
                                      act.data.account, act.data.permission)
     ELSE IF act.name = setabi
     THEN IF ~data_is(act, setabi) THEN throws(time_now(s), "unpack_exception")
          ELSE update_account_setabi(s, act)
     ELSE s

update_account(s0, act) == catch_fc_exception(update_account_try(s0, act))

\* ------------------------------------------------------ processing routines
RECURSIVE add_action_trace(_, _, _, _)
RECURSIVE add_inline_traces(_, _, _, _, _)
RECURSIVE add_action_traces(_, _, _, _, _)

\* added |= ...: the state after a subtree and whether a document was added
or_added(added, r) == [s |-> r.s, added |-> added \/ r.added]

\* a bulk that takes each new document at its front
index_action_trace_front(v, atrace, now) ==
  [v.s EXCEPT !.bulk = <<[receiver |-> atrace.receiver, act |-> v.decoded[1],
                          createdAt |-> now]>> \o @,
              !.log = Append(@, [op |-> "indexDocument", type |-> "action_traces",
                                 receiver |-> atrace.receiver, act |-> v.decoded[1]])]

\* bulk_action_traces.indexDocument of the action's document; v is the result
\* of to_variant_with_abi( base ).  The document goes to the bulk, which is
\* in memory; the log notes the call
index_action_trace(v, atrace, now) ==
  [v.s EXCEPT !.bulk = Append(@, [receiver |-> atrace.receiver, act |-> v.decoded[1],
                                  createdAt |-> now]),
              !.log = Append(@, [op |-> "indexDocument", type |-> "action_traces",
                                 receiver |-> atrace.receiver, act |-> v.decoded[1]])]

\* add_action_trace after update_account: the document, then the inline
\* traces; an exception that left update_account leaves add_action_trace
add_action_trace_doc(s1, atrace, executed, now) ==
  IF s1.exc # NoException THEN [s |-> s1, added |-> FALSE]
  ELSE
  or_added(s1.gate /\ store_action_traces /\ filter_include(atrace.act),
           add_inline_traces(IF s1.gate /\ store_action_traces /\ filter_include(atrace.act)
                             THEN index_action_trace(to_variant_with_abi(s1, <<atrace.act>>),
                                                     atrace, now)
                             ELSE s1,
                             atrace.inline_traces, 1, executed, now))

add_action_trace(s, atrace, executed, now) ==
  add_action_trace_doc(IF executed /\ atrace.receiver = system_account_name
                       THEN update_account(mark_stale(s, atrace.act), atrace.act)
                       ELSE s,
                       atrace, executed, now)

\* the loop over the inline traces of an action trace, from position i; r is
\* the result for position i, and an exception ends the loop
add_inline_rest(r, traces, i, executed, now) ==
  IF r.s.exc # NoException THEN r
  ELSE or_added(r.added, add_inline_traces(r.s, traces, i + 1, executed, now))

add_inline_traces(s, traces, i, executed, now) ==
  IF i > Len(traces) THEN [s |-> s, added |-> FALSE]
  ELSE add_inline_rest(add_action_trace(s, traces[i], executed, now), traces, i, executed, now)

\* the loop of _process_applied_transaction over t->action_traces: each
\* add_action_trace is in a try block of its own, an exception goes to
\* handle_elasticsearch_exception, write_atraces is not assigned, and the
\* loop goes on
add_action_traces_rest(r, traces, i, executed, now) ==
  IF r.s.exc # NoException
  THEN add_action_traces(handle_elasticsearch_exception(r.s, "add action traces"),
                         traces, i + 1, executed, now)
  ELSE or_added(r.added, add_action_traces(r.s, traces, i + 1, executed, now))

add_action_traces(s, traces, i, executed, now) ==
  IF i > Len(traces) THEN [s |-> s, added |-> FALSE]
  ELSE add_action_traces_rest(add_action_trace(s, traces[i], executed, now),
                              traces, i, executed, now)

\* the actions of an action-trace forest, each node before its inline traces
RECURSIVE trace_actions(_)
trace_actions(traces) ==
  IF traces = <<>> THEN <<>>
  ELSE <<Head(traces).act>> \o trace_actions(Head(traces).inline_traces)
         \o trace_actions(Tail(traces))

\* elastic_client->index(trans_traces_type, json); v is the result of
\* to_variant_with_abi( *t )
index_transaction_trace(v, t, now) ==
  guarded(v.s, v.s,
          [op |-> "index", type |-> "transaction_traces", id |-> NoId,
           doc |-> [id |-> t.id, action_traces |-> v.decoded, createAt |-> now]],
          "trans_traces index")

\* _process_applied_transaction from line 873 on
transaction_trace_doc(s2, write_atraces, t, now) ==
  IF ~s2.gate \/ ~store_transaction_traces THEN s2
  ELSE IF ~write_atraces THEN s2
  ELSE index_transaction_trace(to_variant_with_abi(s2, trace_actions(t.action_traces)), t, now)

\* if( write_atraces ) bulk_perform(bulk_action_traces); r is the result of
\* the loop over t->action_traces
flush_action_traces(r, t, now) ==
  transaction_trace_doc(IF r.added
                        THEN guarded(r.s, r.s,
                                     [op |-> "bulk", type |-> "action_traces",
                                      docs |-> r.s.bulk],
                                     "action traces")
                        ELSE r.s,
                        r.added, t, now)

applied_action_traces(s1, t) ==
  flush_action_traces(add_action_traces([s1 EXCEPT !.bulk = <<>>], t.action_traces, 1,
                                        t.receipt.valid /\ t.receipt.status = "executed",
                                        s1.clock),
                      t, s1.clock)

_process_applied_transaction(s, t) == applied_action_traces(time_now(s), t)

\* observation for the closed gate: the setabi actions of a trace the worker
\* receives mark the cache entries of their accounts
RECURSIVE mark_all_stale(_, _)
mark_all_stale(s, acts) ==
  IF acts = <<>> THEN s ELSE mark_all_stale(mark_stale(s, Head(acts)), Tail(acts))

\* the actions of the nodes update_account is due for: executed and received
\* by the system account
RECURSIVE system_received(_)
system_received(traces) ==
  IF traces = <<>> THEN <<>>
  ELSE (IF Head(traces).receiver = system_account_name THEN <<Head(traces).act>> ELSE <<>>)
         \o system_received(Head(traces).inline_traces)
         \o system_received(Tail(traces))

process_applied_transaction(s, t) ==
  IF s.gate THEN _process_applied_transaction(s, t)
  ELSE IF t.receipt.valid /\ t.receipt.status = "executed"
       THEN mark_all_stale(s, system_received(t.action_traces))
       ELSE s

\* elastic_client->index(trans_type, trans_json); v is the result of
\* to_variant_with_abi( trx )
index_transaction(v, t, now) ==
  guarded(v.s, v.s,
          [op |-> "index", type |-> "transactions", id |-> NoId,
           doc |-> [trx_id |-> t.id, actions |-> v.decoded, accepted |-> t.accepted,
                    implicit |-> t.implicit, scheduled |-> t.scheduled,
                    createdAt |-> now]],
          "trans index")

transaction_doc(s1, t) == index_transaction(to_variant_with_abi(s1, t.trx.actions), t, s1.clock)

_process_accepted_transaction(s, t) == transaction_doc(time_now(s), t)

\* a routine that writes the transaction behind the gate only
process_accepted_transaction_gated(s, t) ==
  IF s.gate THEN _process_accepted_transaction(s, t) ELSE s

process_accepted_transaction(s, t) == _process_accepted_transaction(s, t)

RECURSIVE block_actions(_)
block_actions(transactions) ==
  IF transactions = <<>> THEN <<>>
  ELSE Head(transactions).actions \o block_actions(Tail(transactions))

\* elastic_client->index(blocks_type, block_json); v is the result of
\* to_variant_with_abi( *bs->block )
index_block(v, bs, now) ==
  guarded(v.s, v.s,
          [op |-> "index", type |-> "blocks", id |-> NoId,
           doc |-> [block_num |-> bs.block_num, block_id |-> bs.id,
                    irreversible |-> FALSE, block |-> v.decoded, createAt |-> now]],
          "block_states index")

\* _process_accepted_block from line 788 on
block_doc(s2, bs, now) ==
  IF ~store_blocks THEN s2
  ELSE index_block(to_variant_with_abi(s2, block_actions(bs.block.transactions)), bs, now)

block_state_doc(s1, bs) ==
  block_doc(guarded(s1, s1,
                    [op |-> "index", type |-> "block_states", id |-> NoId,
                     doc |-> [block_num |-> bs.block_num, block_id |-> bs.id,
                              validated |-> bs.validated,
                              in_current_chain |-> bs.in_current_chain,
                              createAt |-> s1.clock]],
                    "block_states index"),
            bs, s1.clock)

_process_accepted_block(s, bs) == block_state_doc(time_now(s), bs)

\* an accepted block processed without looking at the gate
process_accepted_block_ungated(s, bs) == _process_accepted_block(s, bs)

\* the gate opened by a block above start_block_num only
process_accepted_block_strictly_above(s, bs) ==
  LET s1 == IF ~s.gate /\ bs.block_num > start_block_num
            THEN [s EXCEPT !.gate = TRUE] ELSE s
  IN IF s1.gate THEN _process_accepted_block(s1, bs) ELSE s1

process_accepted_block(s, bs) ==
  LET s1 == IF ~s.gate /\ bs.block_num >= start_block_num
            THEN [s EXCEPT !.gate = TRUE] ELSE s
  IN IF s1.gate THEN _process_accepted_block(s1, bs) ELSE s1

process_irreversible_block(s, bs) == s

\* -------------------------------------------------------------------- inputs
key_weight(k) == [key |-> k, weight |-> 1]
permission_level_weight(a) == [permission |-> permission_level(a), weight |-> 1]

authority(keys, accts) ==
  [threshold |-> 1,
   keys |-> [i \in DOMAIN keys |-> key_weight(keys[i])],
   accounts |-> [i \in DOMAIN accts |-> permission_level_weight(accts[i])]]

system_action(name, actor, data) ==
  [account |-> system_account_name, name |-> name,
   authorization |-> <<permission_level(actor)>>, data |-> data]

NewAccountAlice ==
  system_action(newaccount, "eosio",
                [kind |-> newaccount, creator |-> "eosio", name |-> "alice",
                 owner |-> authority(<<"K1">>, <<"bob">>),
                 active |-> authority(<<"K2">>, <<>>)])

SetAbi(account, bytes) ==
  system_action(setabi, account, [kind |-> setabi, account |-> account, abi |-> bytes])

UpdateAuthAlice ==
  system_action(updateauth, "alice",
                [kind |-> updateauth, account |-> "alice", permission |-> owner,
                 parent |-> "", auth |-> authority(<<"K2">>, <<"bob">>)])

DeleteAuthAlice ==
  system_action(deleteauth, "alice",
                [kind |-> deleteauth, account |-> "alice", permission |-> owner])

Transfer(account, actor) ==
  [account |-> account, name |-> "transfer",
   authorization |-> <<permission_level(actor)>>, data |-> [kind |-> "raw"]]

action_trace(act, receiver, inline_traces) ==
  [act |-> act, receiver |-> receiver, inline_traces |-> inline_traces]

Leaf(act) == action_trace(act, act.account, <<>>)

\* the action-trace forests of the applied transactions the host emits
TraceForests ==
  { <<Leaf(NewAccountAlice)>>,
    <<Leaf(SetAbi("alice", pack_abi("X2")))>>,
    <<Leaf(SetAbi("bob", NotAnAbi))>>,
    <<Leaf(UpdateAuthAlice)>>,
    <<Leaf(DeleteAuthAlice)>>,
    <<Leaf(Transfer("bob", "bob"))>>,
    \* a transfer that notifies bob and the system account
    <<action_trace(Transfer("alice", "alice"), "alice",
                   <<action_trace(Transfer("alice", "alice"), "bob", <<>>),
                     action_trace(Transfer("alice", "alice"), system_account_name, <<>>)>>)>>,
    \* a setabi between two actions of the account it is for
    <<Leaf(Transfer("alice", "bob")),
      action_trace(SetAbi("alice", pack_abi("X2")), system_account_name,
                   <<Leaf(Transfer("alice", "alice"))>>)>>,
    \* three levels and a second tree: a transfer with an inline action that
    \* the filter excludes, which has an inline action of its own
    <<action_trace(Transfer("alice", "alice"), "alice",
                   <<action_trace(Transfer("bob", "bob"), system_account_name,
                                  <<action_trace(Transfer("alice", "bob"), "bob", <<>>)>>)>>),
      action_trace(Transfer("alice", "alice"), system_account_name, <<>>)>>,
    \* a transfer with an inline setabi
    <<action_trace(Transfer("alice", "alice"), "alice",
                   <<Leaf(SetAbi("alice", pack_abi("X2")))>>)>>,
    \* a setabi whose ABI does not unpack, before another system action
    <<Leaf(SetAbi("bob", NotAnAbi)), Leaf(UpdateAuthAlice)>> }

\* a transaction that did not execute carries the traces of its actions too
FailedForests ==
  { <<Leaf(NewAccountAlice)>>,
    <<Leaf(SetAbi("alice", pack_abi("X2")))>> }

TransactionTraces ==
  { [id |-> "t", receipt |-> [valid |-> TRUE, status |-> "executed"], action_traces |-> f] :
      f \in TraceForests }
  \cup
  { [id |-> "t", receipt |-> r, action_traces |-> f] :
      r \in {[valid |-> TRUE, status |-> "soft_fail"], [valid |-> FALSE, status |-> ""]},
      f \in FailedForests }

TransactionMetas ==
  { [id |-> "t", trx |-> [actions |-> acts], accepted |-> TRUE, implicit |-> FALSE,
     scheduled |-> FALSE] :
      acts \in { <<Transfer("alice", "alice")>>,
                 <<Transfer("bob", "bob"), SetAbi("alice", pack_abi("X2"))>> } }

BlockStates ==
  { [block_num |-> n, id |-> "b", validated |-> TRUE, in_current_chain |-> TRUE,
     block |-> [transactions |-> <<[actions |-> <<Transfer("alice", "alice")>>]>>]] :
      n \in 1..MaxBlockNum }

\* the accounts documents of an index that a previous run left behind
\* (delete_index_on_startup false, the default of the member)
PriorAccounts ==
  << [name |-> "eosio", createAt |-> 0, abi |-> "X1", updateAt |-> 0],
     [name |-> "alice", createAt |-> 0, abi |-> "X1", updateAt |-> 0],
     [name |-> "bob", createAt |-> 0, abi |-> "X2", updateAt |-> 0] >>

\* init(): a fresh index gets the document of the system account
SeededAccounts == << [name |-> system_account_name, createAt |-> 0] >>

\* the filter of the processing runs: everything but the transfers of bob
ProcFilterConfigs ==
  { [star |-> TRUE, on |-> {}, out |-> {filter_entry("bob", "transfer", Zero)}] }

\* ---------------------------------------------------------- Spec: processing
IdleFilter ==
  /\ f_act = Transfer("alice", "alice")
  /\ f_ret = FALSE
  /\ f_pc = "idle"

NoEvent == [kind |-> "none", gate |-> FALSE]

\* the state after plugin_initialize: the configuration is set, the gate is
\* open from the start when start_block_num is 0, the index is created.
\* The configuration members range over their values; plugin_initialize of
\* this build assigns start_block_num = 0, abi_cache_size = 2048 and
\* delete_index_on_startup = true, and leaves the store_ flags at true.
InitProc ==
  /\ start_block_num \in {0, MaxBlockNum}
  /\ start_block_reached = (start_block_num = 0)
  /\ store_blocks \in BOOLEAN
  /\ store_transaction_traces \in BOOLEAN
  /\ store_action_traces \in BOOLEAN
  /\ abi_cache_size \in 1..MaxCacheSize
  /\ abi_cache_index = <<>>
  /\ clock = 0
  /\ accounts \in {SeededAccounts, PriorAccounts}
  /\ pub_keys = <<>>
  /\ account_controls = <<>>
  /\ es_log = <<>>
  /\ ua_log = <<>>
  /\ evict_log = <<>>
  /\ cache_peak = 0
  /\ stale_used = FALSE
  /\ last_event = NoEvent
  /\ nevents = 0

Init ==
  /\ \E c \in ProcFilterConfigs :
       /\ filter_on_star = c.star
       /\ filter_on = c.on
       /\ filter_out = c.out
  /\ IdleFilter
  /\ InitProc
  /\ IdleThreads

\* an action stores the state a processing routine leaves
Store(s, event) ==
  /\ start_block_reached' = s.gate
  /\ abi_cache_index' = s.cache
  /\ clock' = s.clock
  /\ accounts' = s.accounts
  /\ pub_keys' = s.pub_keys
  /\ account_controls' = s.account_controls
  /\ es_log' = s.log
  /\ ua_log' = s.ua
  /\ evict_log' = s.evict
  /\ cache_peak' = s.peak
  /\ stale_used' = s.stale_used
  /\ last_event' = event
  /\ nevents' = nevents + 1
  /\ UNCHANGED <<cfgFilter, varsFilter, cfgProc, varsThreads>>

ClockSteps == {0, 1}

ProcessAppliedTransaction ==
  /\ nevents < MaxEvents
  /\ \E t \in TransactionTraces, dt \in ClockSteps :
       Store(process_applied_transaction(ProcState(dt), t),
             [kind |-> "applied", gate |-> start_block_reached, trace |-> t])

ProcessAcceptedTransaction ==
  /\ nevents < MaxEvents
  /\ \E t \in TransactionMetas, dt \in ClockSteps :
       Store(process_accepted_transaction(ProcState(dt), t),
             [kind |-> "accepted", gate |-> start_block_reached, meta |-> t])

ProcessAcceptedBlock ==
  /\ nevents < MaxEvents
  /\ \E bs \in BlockStates, dt \in ClockSteps :
       Store(process_accepted_block(ProcState(dt), bs),
             [kind |-> "block", gate |-> start_block_reached, bs |-> bs])

ProcessIrreversibleBlock ==
  /\ nevents < MaxEvents
  /\ \E bs \in {b \in BlockStates : b.block_num = MaxBlockNum}, dt \in {0} :
       Store(process_irreversible_block(ProcState(dt), bs),
             [kind |-> "irreversible", gate |-> start_block_reached, bs |-> bs])

Next ==
  \/ ProcessAppliedTransaction
  \/ ProcessAcceptedTransaction
  \/ ProcessAcceptedBlock
  \/ ProcessIrreversibleBlock

\* --- SpecFailing: the processing routines against a store one of whose
\* calls fails
ProcessAppliedTransactionFailing ==
  /\ nevents < MaxEvents
  /\ \E t \in TransactionTraces, dt \in ClockSteps, n \in 1..MaxCalls, e \in ClientExceptions :
       Store(process_applied_transaction(ProcStateFailing(dt, n, e), t),
             [kind |-> "applied", gate |-> start_block_reached, trace |-> t])

ProcessAcceptedTransactionFailing ==
  /\ nevents < MaxEvents
  /\ \E t \in TransactionMetas, dt \in ClockSteps, n \in 1..MaxCalls, e \in ClientExceptions :
       Store(process_accepted_transaction(ProcStateFailing(dt, n, e), t),
             [kind |-> "accepted", gate |-> start_block_reached, meta |-> t])

ProcessAcceptedBlockFailing ==
  /\ nevents < MaxEvents
  /\ \E bs \in BlockStates, dt \in ClockSteps, n \in 1..MaxCalls, e \in ClientExceptions :
       Store(process_accepted_block(ProcStateFailing(dt, n, e), bs),
             [kind |-> "block", gate |-> start_block_reached, bs |-> bs])

NextFailing ==
  \/ Next
  \/ ProcessAppliedTransactionFailing
  \/ ProcessAcceptedTransactionFailing
  \/ ProcessAcceptedBlockFailing

IdleProc ==
  /\ start_block_num = 0
  /\ start_block_reached = TRUE
  /\ store_blocks = TRUE
  /\ store_transaction_traces = TRUE
  /\ store_action_traces = TRUE
  /\ abi_cache_size = 1
  /\ abi_cache_index = <<>>
  /\ clock = 0
  /\ accounts = <<>>
  /\ pub_keys = <<>>
  /\ account_controls = <<>>
  /\ es_log = <<>>
  /\ ua_log = <<>>
  /\ evict_log = <<>>
  /\ cache_peak = 0
  /\ stale_used = FALSE
  /\ last_event = NoEvent
  /\ nevents = 0

\* ------------------------------------------------------ SpecThreads: threads
\* The host's emitter threads (Producers) run the four ingress callbacks, the
\* consume thread runs consume_blocks, and the main thread runs
\* plugin_initialize, later plugin_shutdown and the destructor.  An event is
\* a number; what processing it does to the store is the subject of Spec.
Worker == "consume_thread"

AllEmpty(qs) == \A k \in KindSet : qs[k] = <<>>

\* a notification that wakes nobody
notify_nobody(pc) == pc

\* condition.notify_one(): a thread blocked in condition.wait is woken; with
\* no thread blocked the notification has no effect
notify_one(pc) == IF pc = "waiting" THEN "woken" ELSE pc

\* --- main thread: plugin_initialize, init
Connect ==
  /\ l_pc = "constructed"
  /\ connected' = TRUE
  /\ l_pc' = "connected"
  /\ UNCHANGED <<varsOther, index_created, startup, done, max_queue_size, queue_sleep_time, queue,
                 process_queue, mtx, w_pc, w_size, p_pc, p_kind, p_ev, p_tmp,
                 next_ev, processed, appended, last_sleep>>

InitIndex ==
  /\ l_pc = "connected"
  /\ index_created' = TRUE
  /\ l_pc' = "index_ready"
  /\ UNCHANGED <<varsOther, connected, startup, done, max_queue_size, queue_sleep_time, queue,
                 process_queue, mtx, w_pc, w_size, p_pc, p_kind, p_ev, p_tmp,
                 next_ev, processed, appended, last_sleep>>

StartConsumeThread ==
  /\ l_pc = "index_ready"
  /\ w_pc' = "lock"
  /\ startup' = FALSE
  /\ l_pc' = "running"
  /\ UNCHANGED <<varsOther, connected, index_created, done, max_queue_size, queue_sleep_time, queue,
                 process_queue, mtx, w_size, p_pc, p_kind, p_ev, p_tmp, next_ev, processed, appended, last_sleep>>

\* --- main thread: plugin_shutdown and the destructor
Disconnect ==
  /\ l_pc = "running"
  /\ connected' = FALSE
  /\ l_pc' = "destructor"
  /\ UNCHANGED <<varsOther, index_created, startup, done, max_queue_size, queue_sleep_time, queue,
                 process_queue, mtx, w_pc, w_size, p_pc, p_kind, p_ev, p_tmp,
                 next_ev, processed, appended, last_sleep>>

SetDone ==
  /\ l_pc = "destructor"
  /\ ~startup
  /\ done' = TRUE
  /\ l_pc' = "notify"
  /\ UNCHANGED <<varsOther, connected, index_created, startup, max_queue_size, queue_sleep_time, queue,
                 process_queue, mtx, w_pc, w_size, p_pc, p_kind, p_ev, p_tmp,
                 next_ev, processed, appended, last_sleep>>

NotifyDone ==
  /\ l_pc = "notify"
  /\ w_pc' = notify_one(w_pc)
  /\ l_pc' = "join"
  /\ UNCHANGED <<varsOther, connected, index_created, startup, done, max_queue_size, queue_sleep_time,
                 queue, process_queue, mtx, w_size, p_pc, p_kind, p_ev, p_tmp,
                 next_ev, processed, appended, last_sleep>>

Join ==
  /\ l_pc = "join"
  /\ w_pc = "exited"
  /\ l_pc' = "joined"
  /\ UNCHANGED <<varsOther, connected, index_created, startup, done, max_queue_size, queue_sleep_time,
                 queue, process_queue, mtx, w_pc, w_size, p_pc, p_kind, p_ev, p_tmp,
                 next_ev, processed, appended, last_sleep>>

\* --- an emitter thread: a callback and queue()
Emit(p) ==
  /\ connected
  /\ p_pc[p] = "idle"
  /\ next_ev <= MaxEmitted
  /\ \E k \in KindSet : p_kind' = [p_kind EXCEPT ![p] = k]
  /\ p_ev' = [p_ev EXCEPT ![p] = next_ev]
  /\ next_ev' = next_ev + 1
  /\ p_pc' = [p_pc EXCEPT ![p] = "lock"]
  /\ UNCHANGED <<varsOther, l_pc, connected, index_created, startup, done, max_queue_size,
                 queue_sleep_time, queue, process_queue, mtx, w_pc, w_size, p_tmp, processed, appended, last_sleep>>

\* scoped_lock lock( mtx ); queue_size = queue.size(); and, when the queue is
\* not over its size, queue_sleep_time -= 10
QueueLock(p) ==
  /\ p_pc[p] = "lock"
  /\ mtx = NoOwner
  /\ mtx' = p
  /\ IF Len(queue[p_kind[p]]) > max_queue_size
     THEN /\ p_pc' = [p_pc EXCEPT ![p] = "over"]
          /\ UNCHANGED queue_sleep_time
     ELSE /\ p_pc' = [p_pc EXCEPT ![p] = "under"]
          /\ queue_sleep_time' = queue_sleep_time - SleepStep
  /\ UNCHANGED <<varsOther, l_pc, connected, index_created, startup, done, max_queue_size,
                 queue, process_queue, w_pc, w_size, p_kind, p_ev, p_tmp,
                 next_ev, processed, appended, last_sleep>>

\* lock.unlock(); condition.notify_one();
QueueOverUnlock(p) ==
  /\ p_pc[p] = "over"
  /\ mtx' = NoOwner
  /\ w_pc' = notify_one(w_pc)
  /\ p_pc' = [p_pc EXCEPT ![p] = "over_read"]
  /\ UNCHANGED <<varsOther, l_pc, connected, index_created, startup, done, max_queue_size,
                 queue_sleep_time, queue, process_queue, w_size, p_kind, p_ev, p_tmp,
                 next_ev, processed, appended, last_sleep>>

\* queue_sleep_time += 10, without the mutex: a read, then a write
QueueOverRead(p) ==
  /\ p_pc[p] = "over_read"
  /\ p_tmp' = [p_tmp EXCEPT ![p] = queue_sleep_time]
  /\ p_pc' = [p_pc EXCEPT ![p] = "over_write"]
  /\ UNCHANGED <<varsOther, l_pc, connected, index_created, startup, done, max_queue_size,
                 queue_sleep_time, queue, process_queue, mtx, w_pc, w_size, p_kind, p_ev,
                 next_ev, processed, appended, last_sleep>>

QueueOverWrite(p) ==
  /\ p_pc[p] = "over_write"
  /\ queue_sleep_time' = p_tmp[p] + SleepStep
  /\ p_pc' = [p_pc EXCEPT ![p] = "sleep"]
  /\ UNCHANGED <<varsOther, l_pc, connected, index_created, startup, done, max_queue_size,
                 queue, process_queue, mtx, w_pc, w_size, p_kind, p_ev, p_tmp,
                 next_ev, processed, appended, last_sleep>>

\* sleep_for( milliseconds( queue_sleep_time ) ): the value is read now
QueueSleep(p) ==
  /\ p_pc[p] = "sleep"
  /\ p_tmp' = [p_tmp EXCEPT ![p] = queue_sleep_time]
  /\ last_sleep' = [ms |-> queue_sleep_time, captured |-> Captured,
                    shorter |-> \/ last_sleep.shorter
                                \/ /\ last_sleep.captured = Captured
                                   /\ queue_sleep_time < last_sleep.ms]
  /\ p_pc' = [p_pc EXCEPT ![p] = "relock"]
  /\ UNCHANGED <<varsOther, l_pc, connected, index_created, startup, done, max_queue_size,
                 queue_sleep_time, queue, process_queue, mtx, w_pc, w_size, p_kind, p_ev,
                 next_ev, processed, appended>>

\* an overflowing enqueue that gives its event up after the sleep
QueueRelockDrop(p) ==
  /\ p_pc[p] = "relock"
  /\ mtx = NoOwner
  /\ p_pc' = [p_pc EXCEPT ![p] = "notify"]
  /\ UNCHANGED <<varsOther, l_pc, connected, index_created, startup, done, max_queue_size,
                 queue_sleep_time, queue, process_queue, mtx, w_pc, w_size, p_kind, p_ev, p_tmp,
                 next_ev, processed, appended, last_sleep>>

\* an overflowing enqueue that, after its sleep, waits until the queue is
\* within max_queue_size before it appends
QueueRelockWait(p) ==
  /\ p_pc[p] = "relock"
  /\ mtx = NoOwner
  /\ Len(queue[p_kind[p]]) <= max_queue_size
  /\ queue' = [queue EXCEPT ![p_kind[p]] = Append(@, p_ev[p])]
  /\ appended' = Append(appended, [kind |-> p_kind[p], ev |-> p_ev[p]])
  /\ p_pc' = [p_pc EXCEPT ![p] = "notify"]
  /\ UNCHANGED <<varsOther, l_pc, connected, index_created, startup, done, max_queue_size,
                 queue_sleep_time, process_queue, mtx, w_pc, w_size, p_kind, p_ev, p_tmp,
                 next_ev, processed, last_sleep>>

\* lock.lock(); queue.emplace_back( e ); lock.unlock();
QueueRelockAppend(p) ==
  /\ p_pc[p] = "relock"
  /\ mtx = NoOwner
  /\ queue' = [queue EXCEPT ![p_kind[p]] = Append(@, p_ev[p])]
  /\ appended' = Append(appended, [kind |-> p_kind[p], ev |-> p_ev[p]])
  /\ p_pc' = [p_pc EXCEPT ![p] = "notify"]
  /\ UNCHANGED <<varsOther, l_pc, connected, index_created, startup, done, max_queue_size,
                 queue_sleep_time, process_queue, mtx, w_pc, w_size, p_kind, p_ev, p_tmp,
                 next_ev, processed, last_sleep>>

\* if( queue_sleep_time < 0 ) queue_sleep_time = 0; queue.emplace_back( e );
\* lock.unlock();
QueueUnderAppend(p) ==
  /\ p_pc[p] = "under"
  /\ queue_sleep_time' = IF queue_sleep_time < 0 THEN 0 ELSE queue_sleep_time
  /\ queue' = [queue EXCEPT ![p_kind[p]] = Append(@, p_ev[p])]
  /\ appended' = Append(appended, [kind |-> p_kind[p], ev |-> p_ev[p]])
  /\ mtx' = NoOwner
  /\ p_pc' = [p_pc EXCEPT ![p] = "notify"]
  /\ UNCHANGED <<varsOther, l_pc, connected, index_created, startup, done, max_queue_size,
                 process_queue, w_pc, w_size, p_kind, p_ev, p_tmp, next_ev, processed, last_sleep>>

\* condition.notify_one(); and the callback returns
QueueNotify(p) ==
  /\ p_pc[p] = "notify"
  /\ w_pc' = notify_one(w_pc)
  /\ p_pc' = [p_pc EXCEPT ![p] = "idle"]
  /\ p_kind' = [p_kind EXCEPT ![p] = Kinds[1]]
  /\ p_ev' = [p_ev EXCEPT ![p] = 0]
  /\ p_tmp' = [p_tmp EXCEPT ![p] = 0]
  /\ UNCHANGED <<varsOther, l_pc, connected, index_created, startup, done, max_queue_size,
                 queue_sleep_time, queue, process_queue, mtx, w_size, next_ev, processed, appended, last_sleep>>

\* --- the consume thread: consume_blocks
\* a capture that leaves the mutex locked for the processing loops
CheckAndCaptureLocked ==
  IF AllEmpty(queue) /\ ~done
  THEN /\ mtx' = Worker
       /\ w_pc' = "enter_wait"
       /\ UNCHANGED <<queue, process_queue, w_size>>
  ELSE /\ w_size' = [k \in KindSet |-> Len(queue[k])]
       /\ process_queue' = [k \in KindSet |->
                              IF Len(queue[k]) > 0 THEN queue[k] ELSE process_queue[k]]
       /\ queue' = [k \in KindSet |-> <<>>]
       /\ mtx' = Worker
       /\ w_pc' = "process"

\* With the mutex held: the condition of the inner while loop, and when it is
\* false the capture for processing and lock.unlock()
CheckAndCapture ==
  IF AllEmpty(queue) /\ ~done
  THEN /\ mtx' = Worker
       /\ w_pc' = "enter_wait"
       /\ UNCHANGED <<queue, process_queue, w_size>>
  ELSE /\ w_size' = [k \in KindSet |-> Len(queue[k])]
       /\ process_queue' = [k \in KindSet |->
                              IF Len(queue[k]) > 0 THEN queue[k] ELSE process_queue[k]]
       /\ queue' = [k \in KindSet |-> <<>>]
       /\ mtx' = NoOwner
       /\ w_pc' = "process"

\* scoped_lock lock(mtx) at the top of the outer loop
ConsumeLock ==
  /\ w_pc = "lock"
  /\ mtx = NoOwner
  /\ CheckAndCapture
  /\ UNCHANGED <<varsOther, l_pc, connected, index_created, startup, done, max_queue_size,
                 queue_sleep_time, p_pc, p_kind, p_ev, p_tmp, next_ev, processed, appended, last_sleep>>

\* condition.wait(lock): the mutex is released and the thread blocks
ConsumeWait ==
  /\ w_pc = "enter_wait"
  /\ mtx' = NoOwner
  /\ w_pc' = "waiting"
  /\ UNCHANGED <<varsOther, l_pc, connected, index_created, startup, done, max_queue_size,
                 queue_sleep_time, queue, process_queue, w_size, p_pc, p_kind, p_ev, p_tmp,
                 next_ev, processed, appended, last_sleep>>

\* a wait may return without a notification
SpuriousWakeup ==
  /\ w_pc = "waiting"
  /\ w_pc' = "woken"
  /\ UNCHANGED <<varsOther, l_pc, connected, index_created, startup, done, max_queue_size,
                 queue_sleep_time, queue, process_queue, mtx, w_size, p_pc, p_kind, p_ev,
                 p_tmp, next_ev, processed, appended, last_sleep>>

\* condition.wait returns with the mutex held again
ConsumeWake ==
  /\ w_pc = "woken"
  /\ mtx = NoOwner
  /\ CheckAndCapture
  /\ UNCHANGED <<varsOther, l_pc, connected, index_created, startup, done, max_queue_size,
                 queue_sleep_time, p_pc, p_kind, p_ev, p_tmp, next_ev, processed, appended, last_sleep>>

\* the four loops taken from the last kind to the first
CurrentKindLastFirst ==
  Kinds[CHOOSE i \in DOMAIN Kinds :
          /\ process_queue[Kinds[i]] # <<>>
          /\ \A j \in (i + 1)..Len(Kinds) : process_queue[Kinds[j]] = <<>>]

\* the kind whose process queue the four loops are at
CurrentKind ==
  Kinds[CHOOSE i \in DOMAIN Kinds :
          /\ process_queue[Kinds[i]] # <<>>
          /\ \A j \in 1..(i - 1) : process_queue[Kinds[j]] = <<>>]

\* a deque read from the wrong end
front_newest(q) == q[Len(q)]

\* process_queue.front() and process_queue.pop_front()
front(q) == Head(q)

pop_front(q) == Tail(q)

\* one turn of a processing loop: process the front, pop_front
ConsumeProcess ==
  /\ w_pc = "process"
  /\ ~AllEmpty(process_queue)
  /\ processed' = Append(processed, front(process_queue[CurrentKind]))
  /\ process_queue' = [process_queue EXCEPT ![CurrentKind] = pop_front(@)]
  /\ UNCHANGED <<varsOther, l_pc, connected, index_created, startup, done, max_queue_size,
                 queue_sleep_time, queue, mtx, w_pc, w_size, p_pc, p_kind, p_ev, p_tmp,
                 next_ev, appended, last_sleep>>

\* processing loops that end with captured events left in the process queues
ConsumeExitCheckEarly ==
  /\ w_pc = "process"
  /\ w_pc' = IF (\A k \in KindSet : w_size[k] = 0) /\ done THEN "exited" ELSE "lock"
  /\ UNCHANGED <<varsOther, l_pc, connected, index_created, startup, done, max_queue_size,
                 queue_sleep_time, queue, process_queue, mtx, w_size, p_pc, p_kind, p_ev,
                 p_tmp, next_ev, processed, appended, last_sleep>>

\* the test at the end of the outer loop
ConsumeExitCheck ==
  /\ w_pc = "process"
  /\ AllEmpty(process_queue)
  /\ w_pc' = IF (\A k \in KindSet : w_size[k] = 0) /\ done THEN "exited" ELSE "lock"
  /\ UNCHANGED <<varsOther, l_pc, connected, index_created, startup, done, max_queue_size,
                 queue_sleep_time, queue, process_queue, mtx, w_size, p_pc, p_kind, p_ev,
                 p_tmp, next_ev, processed, appended, last_sleep>>

IdleFilterConfig ==
  /\ filter_on_star = TRUE
  /\ filter_on = {}
  /\ filter_out = {}

InitThreads ==
  /\ IdleFilterConfig
  /\ IdleFilter
  /\ IdleProc
  /\ l_pc = "constructed"
  /\ connected = FALSE
  /\ index_created = FALSE
  /\ startup = TRUE
  /\ done = FALSE
  /\ max_queue_size \in 0..MaxQueueSize
  /\ queue_sleep_time = 0
  /\ queue = [k \in KindSet |-> <<>>]
  /\ process_queue = [k \in KindSet |-> <<>>]
  /\ mtx = NoOwner
  /\ w_pc = "not_started"
  /\ w_size = [k \in KindSet |-> 0]
  /\ p_pc = [p \in Producers |-> "idle"]
  /\ p_kind = [p \in Producers |-> Kinds[1]]
  /\ p_ev = [p \in Producers |-> 0]
  /\ p_tmp = [p \in Producers |-> 0]
  /\ next_ev = 1
  /\ processed = <<>>
  /\ appended = <<>>
  /\ last_sleep = NoSleep

MainThread ==
  \/ Connect
  \/ InitIndex
  \/ StartConsumeThread
  \/ Disconnect
  \/ SetDone
  \/ NotifyDone
  \/ Join

ProducerThread(p) ==
  \/ Emit(p)
  \/ QueueLock(p)
  \/ QueueOverUnlock(p)
  \/ QueueOverRead(p)
  \/ QueueOverWrite(p)
  \/ QueueSleep(p)
  \/ QueueRelockAppend(p)
  \/ QueueUnderAppend(p)
  \/ QueueNotify(p)

\* the steps of queue() a thread takes once it is in the callback
ProducerRuns(p) ==
  \/ QueueLock(p)
  \/ QueueOverUnlock(p)
  \/ QueueOverRead(p)
  \/ QueueOverWrite(p)
  \/ QueueSleep(p)
  \/ QueueRelockAppend(p)
  \/ QueueUnderAppend(p)
  \/ QueueNotify(p)

ConsumeThread ==
  \/ ConsumeLock
  \/ ConsumeWait
  \/ ConsumeWake
  \/ ConsumeProcess
  \/ ConsumeExitCheck

NextThreads ==
  \/ MainThread
  \/ \E p \in Producers : ProducerThread(p)
  \/ ConsumeThread
  \/ SpuriousWakeup

SpecThreads == InitThreads /\ [][NextThreads]_vars

\* --- SpecIngress: SpecThreads with exceptions raised inside queue()
\* what a statement of queue() may throw: an fc::exception, a std::exception
\* (boost::lock_error from the lock, std::bad_alloc from emplace_back) or
\* something else (boost::thread_interrupted from sleep_for)
Exceptions == {"fc::exception", "std::exception", "other"}

\* the statements of queue() that can throw: the scoped_lock, sleep_for,
\* lock.lock() and emplace_back
ThrowPoints == {"lock", "sleep", "relock", "under"}

\* handlers for the two exception types only
callback_catch_typed_only(exc) ==
  IF exc = "fc::exception" THEN "catch_fc"
  ELSE IF exc = "std::exception" THEN "catch_std"
  ELSE "escaped"

\* the catch clauses of an ingress callback: the handler the exception
\* lands in
callback_catch(exc) ==
  IF exc = "fc::exception" THEN "catch_fc"
  ELSE IF exc = "std::exception" THEN "catch_std"
  ELSE "catch_all"

\* a statement of queue() throws: the scoped_lock releases the mutex if it
\* holds it, the event is not appended, the callback's catch clauses follow
QueueThrows(p) ==
  /\ p_pc[p] \in ThrowPoints
  /\ \E exc \in Exceptions : p_pc' = [p_pc EXCEPT ![p] = callback_catch(exc)]
  /\ mtx' = IF mtx = p THEN NoOwner ELSE mtx
  /\ UNCHANGED <<varsOther, l_pc, connected, index_created, startup, done, max_queue_size,
                 queue_sleep_time, queue, process_queue, w_pc, w_size, p_kind, p_ev, p_tmp,
                 next_ev, processed, appended, last_sleep>>

\* the handler logs and the callback returns
CallbackReturns(p) ==
  /\ p_pc[p] \in {"catch_fc", "catch_std", "catch_all"}
  /\ p_pc' = [p_pc EXCEPT ![p] = "idle"]
  /\ p_kind' = [p_kind EXCEPT ![p] = Kinds[1]]
  /\ p_ev' = [p_ev EXCEPT ![p] = 0]
  /\ p_tmp' = [p_tmp EXCEPT ![p] = 0]
  /\ UNCHANGED <<varsOther, l_pc, connected, index_created, startup, done, max_queue_size,
                 queue_sleep_time, queue, process_queue, mtx, w_pc, w_size, next_ev, processed,
                 appended, last_sleep>>

NextIngress ==
  \/ MainThread
  \/ \E p \in Producers : ProducerThread(p)
  \/ \E p \in Producers : QueueThrows(p)
  \/ \E p \in Producers : CallbackReturns(p)
  \/ ConsumeThread
  \/ SpuriousWakeup

SpecIngress == InitThreads /\ [][NextIngress]_vars

\* --- SpecBackpressure: one emitter thread sends a burst of events of one
\* kind, longer than max_queue_size; the consume thread runs or stalls as
\* the scheduler has it
BurstProducer == "p1"

EmitBurst ==
  /\ connected
  /\ p_pc[BurstProducer] = "idle"
  /\ next_ev <= MaxBurst
  /\ \E k \in KindSet :
       /\ appended # <<>> => k = appended[1].kind
       /\ p_kind' = [p_kind EXCEPT ![BurstProducer] = k]
  /\ p_ev' = [p_ev EXCEPT ![BurstProducer] = next_ev]
  /\ next_ev' = next_ev + 1
  /\ p_pc' = [p_pc EXCEPT ![BurstProducer] = "lock"]
  /\ UNCHANGED <<varsOther, l_pc, connected, index_created, startup, done, max_queue_size,
                 queue_sleep_time, queue, process_queue, mtx, w_pc, w_size, p_tmp, processed,
                 appended, last_sleep>>

NextBackpressure ==
  \/ MainThread
  \/ EmitBurst
  \/ ProducerRuns(BurstProducer)
  \/ ConsumeThread
  \/ SpuriousWakeup

SpecBackpressure == InitThreads /\ [][NextBackpressure]_vars

\* --- SpecContention: two emitter threads send events of two kinds, more
\* than fit a queue of max_queue_size, so that one thread is in the
\* overflow branch of queue() while the other is in the other branch
MaxContended == 4

ContendedKinds == {Kinds[1], Kinds[3]}

EmitContended(p) ==
  /\ connected
  /\ p_pc[p] = "idle"
  /\ next_ev <= MaxContended
  /\ \E k \in ContendedKinds : p_kind' = [p_kind EXCEPT ![p] = k]
  /\ p_ev' = [p_ev EXCEPT ![p] = next_ev]
  /\ next_ev' = next_ev + 1
  /\ p_pc' = [p_pc EXCEPT ![p] = "lock"]
  /\ UNCHANGED <<varsOther, l_pc, connected, index_created, startup, done, max_queue_size,
                 queue_sleep_time, queue, process_queue, mtx, w_pc, w_size, p_tmp, processed,
                 appended, last_sleep>>

\* plugin_initialize and init; the plugin is not shut down in this scenario
StartupThread ==
  \/ Connect
  \/ InitIndex
  \/ StartConsumeThread

NextContention ==
  \/ StartupThread
  \/ \E p \in Producers : EmitContended(p)
  \/ \E p \in Producers : ProducerRuns(p)
  \/ ConsumeThread
  \/ SpuriousWakeup

SpecContention == InitThreads /\ [][NextContention]_vars

\* every thread that can take a step eventually takes one; the host need not
\* emit, the main thread need not shut down, a wait need not wake by itself
FairThreads ==
  /\ WF_vars(ConsumeThread)
  /\ \A p \in Producers : WF_vars(ProducerRuns(p))
  /\ WF_vars(SetDone \/ NotifyDone \/ Join)

FairSpecThreads == SpecThreads /\ FairThreads

\* the emitter threads run whatever the consume thread does: a thread inside
\* queue() takes its next step, and gets the mutex if the mutex is free again
\* and again; the consume thread, which may stall anywhere else, does not
\* stay between the test of its inner loop and condition.wait, where it
\* holds the mutex
FairEnqueue ==
  /\ \A p \in Producers : SF_vars(ProducerRuns(p))
  /\ WF_vars(ConsumeWait)

FairSpecEnqueue == SpecThreads /\ FairEnqueue

\* ------------------------------------------------------- SpecFilter
InitFilterConfig ==
  /\ filter_on_star \in BOOLEAN
  /\ filter_on \in SUBSET FilterEntries
  /\ filter_out \in SUBSET FilterEntries

InitFilter ==
  /\ InitFilterConfig
  /\ f_act \in FilterActions
  /\ f_ret = FALSE
  /\ f_pc = "call"
  /\ IdleProc
  /\ IdleThreads

CallFilterInclude ==
  /\ f_pc = "call"
  /\ f_ret' = filter_include(f_act)
  /\ f_pc' = "returned"
  /\ UNCHANGED <<f_act, cfgFilter, cfgProc, varsProc, varsThreads>>

NextFilterInput ==
  /\ f_pc = "returned"
  /\ f_act' \in FilterActions
  /\ f_pc' = "call"
  /\ UNCHANGED <<f_ret, cfgFilter, cfgProc, varsProc, varsThreads>>

NextFilter == CallFilterInclude \/ NextFilterInput

SpecFilter == InitFilter /\ [][NextFilter]_vars

Spec == Init /\ [][Next]_vars

SpecFailing == Init /\ [][NextFailing]_vars

\* ------------------------------------------------ claims C1 - C4, C9, C10
\* C1: after every operation on the ABI cache (a get_abi_serializer hit or
\* miss, a setabi invalidation) the cache holds at most abi_cache_size
\* entries, for every abi_cache_size.
C1_CacheWithinSize ==
  /\ Len(abi_cache_index) <= abi_cache_size
  /\ cache_peak <= abi_cache_size

\* C1 witness: a full cache into which an insert has just evicted
C1_Witness ==
  /\ Len(abi_cache_index) = abi_cache_size
  /\ evict_log # <<>>
  /\ cache_peak = abi_cache_size

\* C2: an insert evicts at most one entry, only when the cache is at its
\* size, and the entry it evicts has the smallest last_accessed of the
\* entries present; the entries stay ordered by last_accessed, which a hit
\* refreshes.
C2_EvictsLeastRecentlyAccessed ==
  /\ \A k \in DOMAIN evict_log :
       LET before == evict_log[k].before
           after == evict_log[k].after
       IN /\ Len(before) >= abi_cache_size
          /\ Len(after) = Len(before) - 1
          /\ \E i \in DOMAIN before :
               /\ after = RemoveAt(before, i)
               /\ \A j \in DOMAIN before :
                    before[i].last_accessed <= before[j].last_accessed
  /\ \A i, j \in DOMAIN abi_cache_index :
       i < j => abi_cache_index[i].last_accessed <= abi_cache_index[j].last_accessed
  /\ \A i \in DOMAIN abi_cache_index : abi_cache_index[i].last_accessed <= clock

\* C2 witness: an eviction from a cache of two entries accessed at different
\* times
C2_Witness ==
  \E k \in DOMAIN evict_log :
    /\ Len(evict_log[k].before) = 2
    /\ evict_log[k].before[1].last_accessed < evict_log[k].before[2].last_accessed

Executed(t) == t.receipt.valid /\ t.receipt.status = "executed"

SeqRange(seq) == {seq[i] : i \in DOMAIN seq}

Wrote(type) == \E i \in DOMAIN es_log : es_log[i].op \in {"index", "bulk"} /\ es_log[i].type = type

RECURSIVE last_setabi(_, _)
last_setabi(acts, account) ==
  IF acts = <<>> THEN ""
  ELSE LET a == acts[Len(acts)]
       IN IF is_setabi(a) /\ a.data.account = account /\ unpacks(a.data.abi)
          THEN unpack_abi(a.data.abi)
          ELSE last_setabi(SubSeq(acts, 1, Len(acts) - 1), account)

\* C9: after the worker has processed an applied trace with an executed
\* system-account setabi of ABI X for an account, the next
\* get_abi_serializer of that account returns a serializer built from X.
\* Stated for a trace processed with the gate open, where the setabi reaches
\* update_account.
C9_SetabiObservable ==
  (last_event.kind = "applied" /\ last_event.gate /\ Executed(last_event.trace)) =>
     \A account \in {"eosio", "alice", "bob"} :
       LET X == last_setabi(system_received(last_event.trace.action_traces), account)
           next_call == get_abi_serializer(ProcState(0), account)
       IN X # "" => (next_call.ret.valid /\ next_call.ret.abi = X)

C7_EmptyAfterJoin ==
  l_pc = "joined" =>
    /\ AllEmpty(queue)
    /\ AllEmpty(process_queue)

\* C8: under fair scheduling, once shutdown has set done the consume thread
\* eventually exits, so the join of the destructor returns.
C8_WorkerExitsOnceDone == done ~> (w_pc = "exited")

\* ------------------------------------------------------------ claims C5, C6
Authorizers(act) == {act.authorization[i].actor : i \in DOMAIN act.authorization}

Candidate(act) ==
  \/ filter_on_star
  \/ filter_entry(act.account, act.name, Zero) \in filter_on
  \/ \E a \in Authorizers(act) : filter_entry(act.account, act.name, a) \in filter_on

Excluded(act) ==
  \/ filter_entry(act.account, Zero, Zero) \in filter_out
  \/ filter_entry(act.account, act.name, Zero) \in filter_out
  \/ \E a \in Authorizers(act) : filter_entry(act.account, act.name, a) \in filter_out

\* C5: filter_include(a) is true iff a is a candidate (wildcard on, or
\* (account, name, 0) in filter_on, or (account, name, actor) in filter_on
\* for some authorizer) and filter_out holds none of (account, 0, 0),
\* (account, name, 0), (account, name, actor); an exclusion overrides an
\* inclusion; and the call leaves the filter configuration as it was.
C5_FilterIncludeSemantics ==
  /\ [](f_pc = "returned" =>
          /\ f_ret = (Candidate(f_act) /\ ~Excluded(f_act))
          /\ (Excluded(f_act) => ~f_ret))
  /\ [][f_pc = "call" => cfgFilter' = cfgFilter]_vars

\* C5 witness: a returned call on a candidate that an exclusion overrides,
\* and no wildcard involved in the candidacy
C5_Witness ==
  /\ f_pc = "returned"
  /\ ~filter_on_star
  /\ Candidate(f_act)
  /\ Excluded(f_act)
  /\ ~f_ret

IndexPermutations(n) == {p \in [1..n -> 1..n] : \A i, j \in 1..n : p[i] = p[j] => i = j}

Permuted(act, p) ==
  [act EXCEPT !.authorization = [i \in DOMAIN act.authorization |-> act.authorization[p[i]]]]

\* C6: filter_include gives the same result for every permutation of the
\* action's authorization list.
C6_FilterOrderIndependent ==
  f_pc = "returned" =>
    \A p \in IndexPermutations(Len(f_act.authorization)) :
      filter_include(Permuted(f_act, p)) = f_ret

\* C6 witness: two different authorizers of which only the second is listed
\* in filter_on, so the result rests on the whole list being scanned
C6_Witness ==
  /\ f_pc = "returned"
  /\ ~filter_on_star
  /\ Len(f_act.authorization) = 2
  /\ f_act.authorization[1].actor # f_act.authorization[2].actor
  /\ filter_entry(f_act.account, f_act.name, Zero) \notin filter_on
  /\ filter_entry(f_act.account, f_act.name, f_act.authorization[1].actor) \notin filter_on
  /\ filter_entry(f_act.account, f_act.name, f_act.authorization[2].actor) \in filter_on
  /\ f_ret

\* ------------------------------------------------------------------ C11
\* the kind under which an event was appended
KindOf(e) == (CHOOSE r \in SeqRange(appended) : r.ev = e).kind

IsAppended(e) == \E r \in SeqRange(appended) : r.ev = e

\* the events of kind k in the order of their append to that kind's queue
AppendedOf(k) ==
  LET rows == SelectSeq(appended, LAMBDA r : r.kind = k)
  IN  [i \in 1..Len(rows) |-> rows[i].ev]

\* the events of kind k in the order the worker processed them
ProcessedOf(k) == SelectSeq(processed, LAMBDA e : IsAppended(e) /\ KindOf(e) = k)

IsPrefix(a, b) == Len(a) <= Len(b) /\ \A i \in 1..Len(a) : a[i] = b[i]

\* C11: for each kind, the events the worker has processed are, in order, the
\* first events appended to that kind's staging queue: no event is processed
\* that was not appended, none is skipped, repeated or taken out of order,
\* whatever the batches and however enqueues interleave with the swap
C11_ProcessedInAppendOrder ==
  /\ \A e \in SeqRange(processed) : IsAppended(e)
  /\ \A k \in KindSet : IsPrefix(ProcessedOf(k), AppendedOf(k))

\* two events of one kind, appended by two threads in the order opposite to
\* their emission, both processed
C11_Witness ==
  /\ \E k \in KindSet : AppendedOf(k) = <<2, 1>> /\ ProcessedOf(k) = <<2, 1>>
  /\ w_pc = "lock"
  /\ queue_sleep_time = 0

\* ------------------------------------------------------------------ C12
GatedTypes == {"block_states", "blocks", "action_traces", "transaction_traces"}

\* C12: with the gate closed, processing an applied trace writes no
\* block_states, blocks, action_traces or transaction_traces document, and
\* neither does processing an accepted block that leaves the gate closed; an
\* accepted block below start_block_num that meets a closed gate leaves it
\* closed and writes nothing at all
C12_ClosedGateWritesNothing ==
  /\ (last_event.kind = "applied" /\ ~last_event.gate) =>
        /\ ~start_block_reached
        /\ \A type \in GatedTypes : ~Wrote(type)
  /\ (last_event.kind = "block" /\ ~start_block_reached) =>
        \A type \in GatedTypes : ~Wrote(type)
  /\ (last_event.kind = "block" /\ ~last_event.gate
        /\ last_event.bs.block_num < start_block_num) =>
        /\ ~start_block_reached
        /\ es_log = <<>>

\* an accepted block below start_block_num processed after another event,
\* with the gate closed
C12_Witness ==
  /\ last_event.kind = "block"
  /\ ~last_event.gate
  /\ last_event.bs.block_num < start_block_num
  /\ nevents = 2
  /\ store_blocks

\* ------------------------------------------------------------------ C13
\* C13: the gate is a latch.  It is open from initialization exactly when
\* start_block_num is 0; an event that meets it open leaves it open; an
\* event that meets it closed opens it exactly when it is an accepted block
\* with block_num >= start_block_num; and every accepted block processed
\* with the gate open afterwards, the opening block included and whatever
\* its height, gets a block_states document, and a blocks document iff
\* store_blocks is on
C13_GateIsLatch ==
  /\ nevents = 0 => (start_block_reached <=> start_block_num = 0)
  /\ (last_event.kind # "none" /\ last_event.gate) => start_block_reached
  /\ (last_event.kind # "none" /\ ~last_event.gate) =>
        (start_block_reached <=>
           /\ last_event.kind = "block"
           /\ last_event.bs.block_num >= start_block_num)
  /\ (last_event.kind = "block" /\ start_block_reached) =>
        /\ Wrote("block_states")
        /\ Wrote("blocks") <=> store_blocks

\* a block below start_block_num processed after the block that opened the
\* gate: it gets its block_states document and, store_blocks being off, no
\* blocks document
C13_Witness ==
  /\ start_block_num > 0
  /\ nevents = 2
  /\ last_event.kind = "block"
  /\ last_event.gate
  /\ last_event.bs.block_num < start_block_num
  /\ Wrote("block_states")
  /\ ~store_blocks

\* ------------------------------------------------------- C14, C15, C16
\* the actions of the given name that an executed applied trace carries to
\* the system account
SystemActions(name) ==
  IF last_event.kind = "applied" /\ Executed(last_event.trace)
  THEN {act \in SeqRange(system_received(last_event.trace.action_traces)) :
          act.name = name /\ data_is(act, name)}
  ELSE {}

\* the public keys of the pub_keys rows of (account, permission), in order
KeyRows(rows, account, permission) ==
  LET sel == SelectSeq(rows, LAMBDA r : r.account = account /\ r.permission = permission)
  IN  [i \in DOMAIN sel |-> sel[i].public_key]

\* the controlling accounts of the account_controls rows of (account, permission)
ControlRows(rows, account, permission) ==
  LET sel == SelectSeq(rows, LAMBDA r : /\ r.controlled_account = account
                                        /\ r.controlled_permission = permission)
  IN  [i \in DOMAIN sel |-> sel[i].controlling_account]

KeysOf(auth) == [i \in DOMAIN auth.keys |-> auth.keys[i].key]

ControllersOf(auth) == [i \in DOMAIN auth.accounts |-> auth.accounts[i].permission.actor]

\* the positions of the calls of an operation on a type in es_log
Calls(op, type) == {i \in DOMAIN es_log : es_log[i].op = op /\ es_log[i].type = type}

DeletesFor(type, account, permission) ==
  {i \in Calls("delete_by_query", type) :
     es_log[i].account = account /\ es_log[i].permission = permission}

\* what update_account leaves for an updateauth, whenever it runs
UpdateauthReplaces(d) ==
  /\ KeyRows(pub_keys, d.account, d.permission) = KeysOf(d.auth)
  /\ ControlRows(account_controls, d.account, d.permission) = ControllersOf(d.auth)
  /\ Cardinality(DeletesFor("pub_keys", d.account, d.permission)) = 1
  /\ Cardinality(DeletesFor("account_controls", d.account, d.permission)) = 1
  /\ \A i \in Calls("delete_by_query", "pub_keys") \cup Calls("delete_by_query", "account_controls") :
       \A j \in Calls("bulk", "pub_keys") \cup Calls("bulk", "account_controls") : i < j

OtherKeyRows(rows, account, permission) ==
  SelectSeq(rows, LAMBDA r : ~(r.account = account /\ r.permission = permission))

OtherControlRows(rows, account, permission) ==
  SelectSeq(rows, LAMBDA r : ~(/\ r.controlled_account = account
                               /\ r.controlled_permission = permission))

\* update_account for a deleteauth action, applied to the present state
AfterDeleteauth(act) == update_account(ProcState(0), act)

\* what a deleteauth leaves alone
DeleteauthFrame(act) ==
  /\ AfterDeleteauth(act).pub_keys =
       OtherKeyRows(pub_keys, act.data.account, act.data.permission)
  /\ AfterDeleteauth(act).account_controls =
       OtherControlRows(account_controls, act.data.account, act.data.permission)
  /\ AfterDeleteauth(act).accounts = accounts
  /\ AfterDeleteauth(act).cache = abi_cache_index

RECURSIVE BulkRows(_, _)
BulkRows(log, type) ==
  IF log = <<>> THEN <<>>
  ELSE (IF Head(log).op = "bulk" /\ Head(log).type = type THEN Head(log).docs ELSE <<>>)
         \o BulkRows(Tail(log), type)

KeyRowsFor(auth, name, permission) ==
  [i \in DOMAIN auth.keys |-> <<name, permission, auth.keys[i].key>>]

ControlRowsFor(auth, name, permission) ==
  [i \in DOMAIN auth.accounts |-> <<name, permission, auth.accounts[i].permission.actor>>]

NoEventDropped ==
  /\ \A e \in 1..(next_ev - 1) :
       \/ IsAppended(e)
       \/ \E p \in Producers : p_ev[p] = e /\ p_pc[p] \notin {"idle", "notify"}
  /\ \A k \in KindSet : AppendedOf(k) = ProcessedOf(k) \o process_queue[k] \o queue[k]

\* of two sleeps with no event captured between them the later is no shorter
SleepsNonDecreasing == ~last_sleep.shorter

\* C17: backpressure drops no event.  When one emitter sends a burst of
\* events of one kind that is longer than max_queue_size, every event is
\* appended whatever the queue length; the sleeps of the overflowing
\* enqueues, as long as the worker takes nothing out of the queue between
\* them, never get shorter; and whenever the worker finds nothing to do,
\* the staging queues are empty and every appended event has been processed
C17_BackpressureNeverDrops ==
  /\ NoEventDropped
  /\ SleepsNonDecreasing
  /\ w_pc = "enter_wait" => (AllEmpty(queue) /\ Len(processed) = Len(appended))

\* the whole burst appended while the worker was stalled, with two sleeps of
\* growing length, and then processed
C17_Witness ==
  /\ max_queue_size < MaxBurst
  /\ Len(processed) = MaxBurst
  /\ w_pc = "enter_wait"
  /\ last_sleep.captured = 0
  /\ last_sleep.ms >= 2 * SleepStep

\* ------------------------------------------------------------------ C18
\* a worker blocked in condition.wait while a staging queue holds an event
\* has the notification of that event's enqueue still to come
NotificationPending ==
  (w_pc = "waiting" /\ ~AllEmpty(queue)) => \E p \in Producers : p_pc[p] = "notify"

\* C18: under fair scheduling of the consume thread and of the threads
\* inside queue(), every event appended to a staging queue while the plugin
\* is running (plugin_shutdown has not begun) is eventually handed to its
\* processing routine, and no enqueue's notification is lost: the worker is
\* never left blocked with an event queued and no notification to come
C18_AppendedEventuallyProcessed ==
  /\ []NotificationPending
  /\ \A e \in 1..MaxEmitted :
       (IsAppended(e) /\ l_pc = "running") ~> (e \in SeqRange(processed))

\* an event appended while the plugin was running has been processed, every
\* callback has returned and the worker is blocked in condition.wait again
C18_Witness ==
  /\ l_pc = "running"
  /\ w_pc = "waiting"
  /\ processed = <<1>>
  /\ AllEmpty(queue)
  /\ \A p \in Producers : p_pc[p] = "idle"

\* ------------------------------------------------------------------ C19
\* C19: no exception raised inside an ingress callback, the enqueue's
\* included, propagates to the host emitter: whatever is thrown lands in one
\* of the callback's handlers, from which the callback returns, and a
\* callback that is in a handler or has returned does not hold the mutex
C19_CallbackContainsExceptions ==
  \A p \in Producers :
    /\ p_pc[p] # "escaped"
    /\ p_pc[p] \in {"idle", "catch_fc", "catch_std", "catch_all"} => mtx # p

\* a callback whose enqueue threw something that is neither an fc::exception
\* nor a std::exception is in the catch-all handler, its event not appended
C19_Witness ==
  \E p \in Producers :
    /\ p_pc[p] = "catch_all"
    /\ p_ev[p] = 2
    /\ ~IsAppended(2)
    /\ IsAppended(1)

\* ------------------------------------------------------------------ C20
\* the failed call at position i of es_log went to
\* handle_elasticsearch_exception, which asked the application to quit,
\* before anything else was done, and the call was not issued again
ReachedHandler(i) ==
  /\ i + 1 \in DOMAIN es_log
  /\ es_log[i + 1].op = "handle_elasticsearch_exception"
  /\ es_log[i + 1].quit
  /\ i + 2 \in DOMAIN es_log => es_log[i + 2] # es_log[i].of

\* C20: every failure of a call of the search client (index, bulk, search,
\* delete_by_query) while the worker processes an event reaches
\* handle_elasticsearch_exception, which requests quit, and is not retried;
\* a failing search of find_account, from get_abi_serializer or from
\* update_account, included
C20_FailuresReachHandler ==
  \A i \in DOMAIN es_log : es_log[i].op = "failure" => ReachedHandler(i)

\* ------------------------------------------------------------------ C21
\* the variables the mutex is there for, and the threads whose next
\* statement reads or writes one of them: an emitter thread at
\* queue_sleep_time += 10 (254), at sleep_for( queue_sleep_time ) (257) or
\* between queue_sleep_time -= 10 and the append (260-263); the main thread
\* at done = true (237); the consume thread at the test of the inner loop
\* (893-897) or at the test of done that ends the outer loop (984).  A thread
\* that is at a lock statement is not in the set: its access comes after the
\* lock, in the same step
MainThreadName == "main"

AccessesCounter(p) == p_pc[p] \in {"over_read", "over_write", "sleep", "under"}

AccessesQueues(p) == p_pc[p] = "under"

MainAccessesDone == l_pc = "destructor" /\ ~startup

WorkerAccessesDone ==
  \/ w_pc = "enter_wait"
  \/ w_pc = "process" /\ AllEmpty(process_queue)

\* C21: a thread whose next statement reads or writes a staging queue, the
\* done flag or queue_sleep_time holds the mutex
C21_GuardedAccessesHoldMutex ==
  /\ \A p \in Producers : (AccessesCounter(p) \/ AccessesQueues(p)) => mtx = p
  /\ MainAccessesDone => mtx = MainThreadName
  /\ WorkerAccessesDone => mtx = Worker

\* the part of C21 that is about the staging queues
QueueAccessesHoldMutex ==
  /\ \A p \in Producers : AccessesQueues(p) => mtx = p
  /\ w_pc = "enter_wait" => mtx = Worker

\* two emitter threads at queue_sleep_time at once, one of them writing
CounterRace ==
  \E p, q \in Producers :
    /\ p # q
    /\ p_pc[p] = "over_write"
    /\ AccessesCounter(q)

\* ------------------------------------------------------------------ C22
\* an event is in queue(): a callback has been called with it
InQueueCall == \E p \in Producers : p_pc[p] # "idle"

\* C22: the callbacks are subscribed only after the index has been created
\* and the consume thread started, so no event is enqueued before that
C22_SubscribedLast ==
  /\ connected => (index_created /\ w_pc # "not_started")
  /\ (InQueueCall \/ appended # <<>>) => (index_created /\ w_pc # "not_started")

\* the order of the other steps: the consume thread starts after init_index
IndexBeforeWorker == w_pc # "not_started" => index_created

\* ------------------------------------------------------------------ C23
\* the callbacks are disconnected before done is set
DisconnectedBeforeDone == done => ~connected

\* C23: once done has been set no event is appended to a staging queue, an
\* event of an emitter thread that was inside queue() when the shutdown began
\* included
C23_NoAppendAfterDone == [][done => appended' = appended]_vars

\* ------------------------------------------------------------------ C24
\* a step of the consume thread that captures: a process queue gets events
Captures == \E k \in KindSet : Len(process_queue'[k]) > Len(process_queue[k])

\* a step that hands an event to a processing routine
Processes == processed' # processed

\* the event handed over is the oldest captured event of a kind, and no
\* captured event of a kind that is processed earlier is waiting
ProcessedInBatchOrder ==
  \E i \in DOMAIN Kinds :
    /\ process_queue[Kinds[i]] # <<>>
    /\ processed' = Append(processed, Head(process_queue[Kinds[i]]))
    /\ \A j \in 1..(i - 1) : process_queue[Kinds[j]] = <<>>

\* C24: the captured events are processed kind by kind (traces, metadata,
\* blocks, irreversible blocks), and nothing is captured while a captured
\* event is waiting, so an event enqueued after a capture is processed after
\* every event of that batch
C24_BatchOrder ==
  [][/\ Processes => ProcessedInBatchOrder
     /\ Captures => AllEmpty(process_queue)]_vars

\* a block and then a trace were appended, both were captured together, and
\* the trace was processed first
C24_Witness ==
  /\ Len(appended) = 2
  /\ appended[1].kind = Kinds[3]
  /\ appended[2].kind = Kinds[1]
  /\ w_size[Kinds[3]] = 1
  /\ w_size[Kinds[1]] = 1
  /\ processed = <<appended[2].ev, appended[1].ev>>

\* ------------------------------------------------------------------ C25
\* the positions of the log where a transactions document is indexed
TransactionWrites ==
  {i \in DOMAIN es_log : es_log[i].op = "index" /\ es_log[i].type = "transactions"}

\* C25: processing an accepted-transaction event writes one transactions
\* document, that of the event's transaction, with the gate open or closed
C25_TransactionAlwaysWritten ==
  last_event.kind = "accepted" =>
    /\ Cardinality(TransactionWrites) = 1
    /\ \A i \in TransactionWrites :
         /\ es_log[i].doc.trx_id = last_event.meta.id
         /\ es_log[i].doc.accepted = last_event.meta.accepted
         /\ i = Len(es_log)

\* an accepted transaction processed with the gate closed, after an applied
\* trace that the closed gate kept from being written
C25_Witness ==
  /\ last_event.kind = "accepted"
  /\ ~last_event.gate
  /\ ~start_block_reached
  /\ nevents = 2
  /\ Len(last_event.meta.trx.actions) = 2
  /\ TransactionWrites # {}

\* ------------------------------------------------------------------ C26
\* C26: queue_sleep_time is not negative when an emitter thread reads it for
\* its sleep, with several emitter threads in queue() at once
C26_SleepCounterNeverNegative ==
  /\ last_sleep.ms >= 0
  /\ \A p \in Producers : p_pc[p] = "relock" => p_tmp[p] >= 0

\* outside the two statements 260-261 the counter is not negative
NegativeOnlyBeforeFloor ==
  queue_sleep_time < 0 => \E p \in Producers : p_pc[p] = "under" /\ mtx = p

\* at its sleep an overflowing enqueue finds the counter SleepStep above the
\* value it read at queue_sleep_time += 10: no other thread has changed it
RaisedByStep ==
  \A p \in Producers : p_pc[p] = "sleep" => queue_sleep_time = p_tmp[p] + SleepStep

\* ------------------------------------------------------------------ C27
\* the emitter thread p is inside queue() with the event e
Enqueues(p, e) == p_pc[p] # "idle" /\ p_ev[p] = e

\* a step of a call of queue() that has slept: it appends and returns, it
\* does not go back to the test of the size or to another sleep
AfterSleepReturns ==
  \A p \in Producers :
    p_pc[p] \in {"relock", "notify"} => p_pc'[p] \in {"relock", "notify", "idle"}

\* a call of queue() that returns has appended its event
ReturnsAppended ==
  \A p \in Producers :
    (p_pc[p] # "idle" /\ p_pc'[p] = "idle") =>
       \E i \in DOMAIN appended : appended[i].ev = p_ev[p]

\* C27: every call of queue() returns with its event appended, whatever the
\* consume thread does, after at most one sleep
C27_EnqueueTerminates ==
  /\ \A p \in Producers : \A e \in 1..MaxEmitted :
       Enqueues(p, e) ~> (IsAppended(e) /\ ~Enqueues(p, e))
  /\ [][AfterSleepReturns /\ ReturnsAppended]_vars

\* two events are in one staging queue, the second appended after a sleep,
\* both calls have returned, and the consume thread has captured nothing
C27_Witness ==
  /\ \E k \in KindSet : Len(queue[k]) = 2
  /\ last_sleep.ms >= SleepStep
  /\ Captured = 0
  /\ \A p \in Producers : p_pc[p] = "idle"

\* ------------------------------------------------------------------ C28
\* C28: no staging queue is ever longer than max_queue_size + 1
C28_QueuesBounded == \A k \in KindSet : Len(queue[k]) <= max_queue_size + 1

\* ------------------------------------------------------------------ C29
\* the nodes of an action-trace forest in depth-first pre-order: a node, then
\* the subtree of each of its inline traces in turn, then the next sibling
RECURSIVE PreOrder(_)
PreOrder(traces) ==
  IF traces = <<>> THEN <<>>
  ELSE <<[receiver |-> Head(traces).receiver, act |-> Head(traces).act]>>
         \o PreOrder(Head(traces).inline_traces)
         \o PreOrder(Tail(traces))

\* the nodes the last routine walked: process_applied_transaction walks the
\* tree of the trace when it meets the gate open
Walked ==
  IF last_event.kind = "applied" /\ last_event.gate
  THEN PreOrder(last_event.trace.action_traces)
  ELSE <<>>

\* the actions the walk hands to update_account: those of the nodes the
\* system account received, when the transaction is executed
ProjectedOf(nodes) ==
  LET sel == SelectSeq(nodes, LAMBDA n : n.receiver = system_account_name)
  IN  [i \in DOMAIN sel |-> sel[i].act]

\* what identifies the action_traces document of a node
DocKey(receiver, account, name) == <<receiver, account, name>>

DocumentedOf(nodes) ==
  LET sel == SelectSeq(nodes, LAMBDA n : filter_include(n.act))
  IN  [i \in DOMAIN sel |-> DocKey(sel[i].receiver, sel[i].act.account, sel[i].act.name)]

BulkKeys ==
  LET docs == BulkRows(es_log, "action_traces")
  IN  [i \in DOMAIN docs |-> DocKey(docs[i].receiver, docs[i].act.account, docs[i].act.name)]

\* C29: the walk of an applied trace is depth-first pre-order: the actions
\* reach update_account in the pre-order of their nodes, and the
\* action_traces documents are in the bulk in the pre-order of their nodes
C29_DepthFirstPreOrder ==
  last_event.kind = "applied" =>
    /\ ua_log = IF Executed(last_event.trace) THEN ProjectedOf(Walked) ELSE <<>>
    /\ BulkKeys = IF store_action_traces THEN DocumentedOf(Walked) ELSE <<>>

\* a trace of three levels and a second tree: the documents of the root, of
\* its grandchild and of the second tree in the bulk, the child and the
\* second tree handed to update_account
C29_Witness ==
  /\ last_event.kind = "applied"
  /\ Len(Walked) = 4
  /\ Len(ua_log) = 2
  /\ ua_log[1] # ua_log[2]
  /\ Len(BulkKeys) = 3
  /\ BulkKeys[2][1] = "bob"
  /\ BulkKeys[3][1] = system_account_name

\* ------------------------------------------------------------------ C30
\* the positions of the log where a document is appended to the bulk of
\* action traces
BulkAppends == {i \in DOMAIN es_log : es_log[i].op = "indexDocument"}

\* a call of the client, made or failed, of the operation on the type
IsCall(i, op, type) ==
  \/ es_log[i].op = op /\ es_log[i].type = type
  \/ es_log[i].op = "failure" /\ es_log[i].of.op = op /\ es_log[i].type = type

\* the positions where the bulk is sent: bulk_perform, whether it succeeds
BulkFlushes == {i \in DOMAIN es_log : IsCall(i, "bulk", "action_traces")}

\* the positions where the transaction_traces document is sent
TraceWrites == {i \in DOMAIN es_log : IsCall(i, "index", "transaction_traces")}

\* C30: processing an applied trace sends the bulk of action traces once if
\* a document was appended to it and not at all otherwise, after the last
\* append and before the transaction_traces document if there is one; with
\* store_transaction_traces off the bulk is sent and no transaction_traces
\* document is
C30_BulkFlushedOnceIfAppended ==
  last_event.kind = "applied" =>
    /\ Cardinality(BulkFlushes) = IF BulkAppends # {} THEN 1 ELSE 0
    /\ \A f \in BulkFlushes :
         /\ \A a \in BulkAppends : a < f
         /\ \A w \in TraceWrites : f < w
    /\ ~store_transaction_traces => TraceWrites = {}

\* no exception has left add_action_trace
WalkCompleted ==
  \A i \in DOMAIN es_log :
    ~(es_log[i].op = "handle_elasticsearch_exception" /\ es_log[i].type = "add action traces")

\* the bulk sent without the transaction_traces document
BulkWithoutParentTrace ==
  /\ last_event.kind = "applied"
  /\ ~store_transaction_traces
  /\ Cardinality(BulkAppends) = 3
  /\ Cardinality(BulkFlushes) = 1
  /\ TraceWrites = {}

\* ------------------------------------------------------------------ C31
\* the accounts for which the trace carries a setabi, received by the system
\* account, whose payload does not unpack
UnpackFailures(t) ==
  {act.data.account : act \in {a \in SeqRange(system_received(t.action_traces)) :
                                 is_setabi(a) /\ ~unpacks(a.data.abi)}}

\* the documents of the account that hold an ABI, with their ids
AbisOf(docs, account) ==
  {[id |-> i, abi |-> docs[i].abi] :
     i \in {j \in DOMAIN docs : docs[j].name = account /\ "abi" \in DOMAIN docs[j]}}

\* the worker processes an executed applied trace, the gate open, with a
\* setabi whose payload does not unpack
ProcessesUnpackFailure ==
  /\ nevents' = nevents + 1
  /\ last_event'.kind = "applied"
  /\ last_event'.gate
  /\ Executed(last_event'.trace)
  /\ UnpackFailures(last_event'.trace) # {}

\* the positions of the log where the application is asked to quit
QuitRequests == {i \in DOMAIN es_log : es_log[i].op = "handle_elasticsearch_exception"}

\* C31: when the payload of a system setabi fails to unpack, only the
\* projection of that account is abandoned: handle_elasticsearch_exception
\* is not reached and no quit is requested, update_account still runs for
\* every system-received action trace of the transaction, every action
\* trace the filter includes gets its document, and the documents of the
\* account keep the ABI they had.  Stated for a trace processed with the gate open,
\* where the setabi reaches update_account.
C31_UnpackFailureAbandonsOneProjection ==
  [][ProcessesUnpackFailure =>
       /\ QuitRequests' = {}
       /\ ua_log' = system_received(last_event'.trace.action_traces)
       /\ Cardinality(BulkAppends') =
            IF store_action_traces
            THEN Len(SelectSeq(trace_actions(last_event'.trace.action_traces), filter_include))
            ELSE 0
       /\ \A account \in UnpackFailures(last_event'.trace) :
            AbisOf(accounts', account) = AbisOf(accounts, account)]_vars

\* a setabi for bob that does not unpack was processed, the action after it
\* reached the store, and bob's document holds the ABI it had
C31_Witness ==
  /\ last_event.kind = "applied"
  /\ last_event.gate
  /\ Executed(last_event.trace)
  /\ UnpackFailures(last_event.trace) = {"bob"}
  /\ Len(ua_log) = 2
  /\ Calls("delete_by_query", "pub_keys") # {}
  /\ AbisOf(accounts, "bob") # {}
  /\ QuitRequests = {}

\* ------------------------------------------------------------------ C32
\* a producer is inside the critical section of queue()
ProducerHoldsMutex == mtx \in Producers

\* C32: the consume thread holds the mutex only in the wait loop at the top
\* of consume_blocks and for the capture that follows it; it does not hold
\* it in a step that hands an event to a processing routine, where the
\* search client is called, nor before or after such a step
C32_WorkerReleasesBeforeProcessing ==
  [][/\ mtx = Worker => w_pc = "enter_wait"
     /\ Processes => (mtx # Worker /\ mtx' # Worker)]_vars

\* a producer is inside its critical section while the worker is in its
\* processing loops with a captured event to process
C32_Witness ==
  /\ w_pc = "process"
  /\ ~AllEmpty(process_queue)
  /\ ProducerHoldsMutex

\* ------------------------------------------------------------------ C33
\* the step moves the staging queue of the kind into its process queue
Moves(k) == queue[k] # <<>> /\ queue'[k] = <<>>

RECURSIVE Concat(_, _)
Concat(qs, i) == IF i > Len(Kinds) THEN <<>> ELSE qs[Kinds[i]] \o Concat(qs, i + 1)

\* how often the event is held: handed to a processing routine, waiting in
\* a process queue or waiting in a staging queue
TimesHeld(e) ==
  Len(SelectSeq(processed \o Concat(process_queue, 1) \o Concat(queue, 1),
                LAMBDA x : x = e))

\* C33: whenever the consume thread moves a staging queue into its process
\* queue, that process queue is empty and receives exactly the events of the
\* staging queue; so an appended event is held once, in its staging queue,
\* in a process queue or as processed, an event is handed to a processing
\* routine at most once, and the consume thread does not go back to the
\* capture or exit with a captured event unprocessed
C33_MoveIntoEmptyBuffer ==
  [][/\ \A k \in KindSet : Moves(k) => (process_queue[k] = <<>> /\ process_queue'[k] = queue[k])
     /\ \A r \in SeqRange(appended') : TimesHeld(r.ev)' = 1
     /\ w_pc' \in {"lock", "exited"} => AllEmpty(process_queue')]_vars

\* the second capture: an event is moved into the process queue after the
\* event of an earlier capture was processed
C33_Witness ==
  /\ processed = <<1>>
  /\ w_pc = "process"
  /\ \E k \in KindSet :
       /\ process_queue[k] = <<2>>
       /\ w_size = [j \in KindSet |-> IF j = k THEN 1 ELSE 0]
  /\ AllEmpty(queue)

\* ------------------------------------------------------------------ C34
\* the account names of the newaccount actions among the actions, in order
NewAccountNames(acts) ==
  LET created == SelectSeq(acts, LAMBDA act : /\ act.account = system_account_name
                                              /\ act.name = newaccount
                                              /\ data_is(act, newaccount))
  IN  [i \in DOMAIN created |-> created[i].data.name]

\* no value occurs twice in the sequence
NoRepeat(seq) == \A i, j \in DOMAIN seq : seq[i] = seq[j] => i = j

\* the actions update_account is due for in an executed applied trace that is
\* processed with the gate open
Projected(event) ==
  IF event.kind = "applied" /\ event.gate /\ Executed(event.trace)
  THEN system_received(event.trace.action_traces)
  ELSE <<>>

\* the accounts collection holds at most one document of a name
OneDocumentPerName(docs) == NoRepeat([i \in DOMAIN docs |-> docs[i].name])

\* C34: the worker, started on the accounts collection that init leaves,
\* processes two events; if no account name occurs in more than one
\* newaccount of the two, the accounts collection holds at most one document
\* per account name afterwards
C34_OneDocumentPerAccount ==
  [][(/\ nevents = 1
      /\ nevents' = 2
      /\ IsPrefix(SeededAccounts, accounts)
      /\ NoRepeat(NewAccountNames(Projected(last_event) \o Projected(last_event'))))
     => OneDocumentPerName(accounts')]_vars

====
